---- MODULE Spec2Model ----
(***************************************************************************)
(* komodo build orchestrator (src/komodo/build.py): the dependency         *)
(* resolver dfs, the installation strategies and the driver make, as a     *)
(* state machine.  One run of make is one behaviour: the requested set     *)
(* pkgs, the repository repo and the process environment are chosen in     *)
(* Init and make then walks through resolution, preparation of the staging *)
(* directory and the per-entry loop, one strategy call at a time.          *)
(***************************************************************************)
EXTENDS Integers, Sequences, FiniteSets, TLC

VARIABLES
    pkgs,       \* make's pkgs: the requested set, a dict in declaration order
    repo,       \* make's repo: package -> version -> metadata
    environ,    \* os.environ of the process
    pc,         \* where make is
    pkgorder,   \* make's pkgorder (the build plan)
    idx,        \* position in pkgorder of the entry the loop is at (1-based)
    ctx,        \* make's locals fakeprefix, prefix, ld_lib_path, bin_path
    call,       \* the strategy call made last: function, arguments, state
    dirs,       \* directories created on disk
    files,      \* package files written on disk
    requests,   \* GET requests sent to the network
    trace,      \* history of strategy calls, returns and raises
    err,        \* the exception that ended make ("none" while it runs)
    run,        \* which run of make this is, the environment it started
                \* with and the files an earlier run had installed
    github,     \* the repository on GitHub that insert_proposals works on:
                \* branches and their files, pull requests, the API calls
                \* that changed it
    ip,         \* the frame of insert_proposals: where it is, its arguments
                \* and locals, how it ended
    cl,         \* the frame of cleanup: where it is, its arguments and locals
    stdout      \* the lines cleanup has printed

vars == <<pkgs, repo, environ, pc, pkgorder, idx, ctx, call, dirs, files, requests,
          trace, err, run, github, ip, cl, stdout>>

make_vars == <<pkgs, repo, environ, pc, pkgorder, idx, ctx, call, dirs, files, requests,
               trace, err, run>>

-----------------------------------------------------------------------------
(* Bounds of the model *)

\* longest "depends" list of a repository entry
MaxDeps == 2

\* frames the interpreter allows dfs before it raises RecursionError (the
\* interpreter's limit, scaled down; any value above the number of packages
\* is reached by a cyclic graph only)
RecursionLimit == 4

\* the chunks of a response body
MaxChunks == 2

Names == {"a", "b", "c"}
Versions == {"v1", "v2"}

-----------------------------------------------------------------------------
(* Paths: a path is absolute or relative and has components *)

Path(abs, parts) == [abs |-> abs, parts |-> parts]

Cwd == Path(TRUE, <<"work">>)

\* string concatenation a + b of two paths: an absolute b is written with a
\* leading "/", a relative b continues the last component of a
PathPlus(a, b) ==
    IF b.abs \/ a.parts = <<>> \/ b.parts = <<>>
    THEN Path(a.abs, a.parts \o b.parts)
    ELSE Path(a.abs, SubSeq(a.parts, 1, Len(a.parts) - 1)
                       \o <<a.parts[Len(a.parts)] \o b.parts[1]>>
                       \o Tail(b.parts))

\* os.path.join(a, name) and pathlib's a / name for a relative name
PathJoin(a, name) == Path(a.abs, Append(a.parts, name))

\* os.path.abspath
abspath(p) == IF p.abs THEN p ELSE Path(TRUE, Cwd.parts \o p.parts)

IsUnder(p, root) ==
    /\ p.abs = root.abs
    /\ Len(p.parts) >= Len(root.parts)
    /\ SubSeq(p.parts, 1, Len(root.parts)) = root.parts

\* make's arguments prefix and fakeroot
Prefix == Path(TRUE, <<"opt", "komodo">>)
Fakeroot == Path(TRUE, <<"stage">>)

-----------------------------------------------------------------------------
(* Repository metadata: keys is the set of keys the entry has *)

Methods == {"cmake", "pip", "sh", "rsync", "rpm", "download", "noop"}
download_keys == {"url", "destination", "hash"}

Meta(make, keys, depends, url, hash) ==
    [make |-> make, keys |-> keys, depends |-> depends, url |-> url, hash |-> hash,
     destination |-> IF "destination" \in keys
                     THEN Path(FALSE, <<"bin", "tool">>) ELSE Path(FALSE, <<>>),
     makeopts |-> <<>>]

\* A string of build flags is the sequence of its pieces: a piece of text (the
\* placeholder "$(prefix)" is one, a space is one) or a path written out.
Lit(text) == [kind |-> "text", text |-> text, path |-> Path(FALSE, <<>>)]
Dir(path) == [kind |-> "path", text |-> "", path |-> path]

\* an entry with the key makeopts
WithMakeopts(meta, makeopts) ==
    [meta EXCEPT !.keys = @ \cup {"makeopts"}, !.makeopts = makeopts]

\* dict.get of a key the entry does not have
NoUrl == [scheme |-> "None"]
NoHash == [type |-> "None", value |-> <<>>]

\* the body of a response is a sequence of chunks; a sha256 digest is written
\* as the sequence of chunks it is the digest of (no two inputs collide)
Chunks == {"x", "y"}
DeclaredDigest == <<"x", "y">>

\* a url by the characters before "://" ("httpsx" is any scheme that begins
\* with https and is longer); a hash string "type:value"
Urls == {[scheme |-> "https"], [scheme |-> "http"], [scheme |-> "httpsx"]}
Hashes == {[type |-> "sha256", value |-> DeclaredDigest],
           [type |-> "md5", value |-> DeclaredDigest]}

\* the names pkgs has as keys, and pkgs[x]
Requested(p) == {p[k].name : k \in DOMAIN p}
VersionOf(p, x) == p[CHOOSE k \in DOMAIN p : p[k].name = x].ver

-----------------------------------------------------------------------------
(* dfs: depth-first, post-order traversal of the declared dependencies *)

Ok(list) == [status |-> "ok", list |-> list]
Raised(kind) == [status |-> kind, list |-> <<>>]

\* (mutant) the dependency is looked up at the version of the package that
\* depends on it
DependencyVersionOfParent(x, ver, p) == ver

\* the version at which dfs looks a dependency x up: pkgs[x]
DependencyVersion(x, ver, p) == VersionOf(p, x)

\* line 29: every name of the depends list is a key of pkgs
AllRequested(depends, p) == \A k \in DOMAIN depends : depends[k] \in Requested(p)

\* (mutant) pre-order: the package before its dependencies
EmitFirst(package_name, deps_list) == <<package_name>> \o deps_list

\* lines 43-44: the dependencies' results, then the package itself
Emit(package_name, deps_list) == Append(deps_list, package_name)

RECURSIVE dfs(_, _, _, _, _)
RECURSIVE dfs_each(_, _, _, _, _)

\* lines 40-42: the list comprehension calls dfs for each dependency in turn;
\* the first call that raises ends it
dfs_each(depends, ver, p, r, depth) ==
    IF depends = <<>> THEN Ok(<<>>)
    ELSE LET x == Head(depends)
             first == dfs(x, DependencyVersion(x, ver, p), p, r, depth + 1)
         IN  IF first.status # "ok" THEN first
             ELSE LET rest == dfs_each(Tail(depends), ver, p, r, depth)
                  IN  IF rest.status # "ok" THEN rest
                      ELSE Ok(first.list \o rest.list)

\* depth counts the frames of dfs on the stack: the interpreter raises
\* RecursionError when a call would exceed its limit
dfs(package_name, ver, p, r, depth) ==
    IF depth > RecursionLimit THEN Raised("RecursionError")
    ELSE LET current == r[package_name][ver] IN
         IF "depends" \notin current.keys THEN Ok(<<package_name>>)
         ELSE IF ~AllRequested(current.depends, p) THEN Raised("SystemExit")
         ELSE LET deps == dfs_each(current.depends, ver, p, r, depth)
              IN  IF deps.status # "ok" THEN deps
                  ELSE Ok(Emit(package_name, deps.list))

\* make line 260: dfs of every item of pkgs, chained in declaration order
RECURSIVE packages_needed(_, _, _)
packages_needed(k, p, r) ==
    IF k > Len(p) THEN Ok(<<>>)
    ELSE LET first == dfs(p[k].name, p[k].ver, p, r, 1)
         IN  IF first.status # "ok" THEN first
             ELSE LET rest == packages_needed(k + 1, p, r)
                  IN  IF rest.status # "ok" THEN rest
                      ELSE Ok(first.list \o rest.list)

\* make lines 262-268: keep the first occurrence of every name
\* the last occurrence of each name instead of the first
RECURSIVE DedupKeepLast(_, _)
DedupKeepLast(list, seen_package) ==
    IF list = <<>> THEN <<>>
    ELSE IF \E k \in DOMAIN Tail(list) : Tail(list)[k] = Head(list)
         THEN DedupKeepLast(Tail(list), seen_package)
         ELSE <<Head(list)>> \o DedupKeepLast(Tail(list), seen_package)

RECURSIVE Dedup(_, _)
Dedup(list, seen_package) ==
    IF list = <<>> THEN <<>>
    ELSE IF Head(list) \in seen_package THEN Dedup(Tail(list), seen_package)
    ELSE <<Head(list)>> \o Dedup(Tail(list), seen_package \cup {Head(list)})

\* make lines 260-268
Resolution(p, r) ==
    LET needed == packages_needed(1, p, r)
    IN  IF needed.status # "ok" THEN needed ELSE Ok(Dedup(needed.list, {}))

-----------------------------------------------------------------------------
(* The inputs of a run *)

\* os.environ values: unset, or a ":"-separated list of paths
Unset == [set |-> FALSE, val |-> <<>>]
EnvValue(list) == [set |-> TRUE, val |-> list]

EnvVars == {"LD_LIBRARY_PATH", "PATH", "DESTDIR", "BOOST_ROOT", "EXTRA_MAKEOPTS"}

Environ(ld) ==
    [v \in EnvVars |->
        CASE v = "LD_LIBRARY_PATH" -> ld
          [] v = "PATH" -> EnvValue(<<Path(TRUE, <<"usr", "bin">>)>>)
          [] OTHER -> Unset]

LdChoices == {Unset, EnvValue(<<Path(TRUE, <<"usr", "lib">>)>>)}

Injective(f) == \A x, y \in DOMAIN f : f[x] = f[y] => x = y

\* a "depends" key: absent, or a list of at most MaxDeps distinct names
DepChoices ==
    {[has |-> FALSE, list |-> <<>>]} \cup
    {[has |-> TRUE, list |-> l] :
        l \in {f \in UNION {[1..n -> Names] : n \in 0..MaxDeps} : Injective(f)}}

Front(list) == IF list = <<>> THEN <<>> ELSE SubSeq(list, 1, Len(list) - 1)

DepKeys(d) == IF d.has THEN {"make", "depends"} ELSE {"make"}

NameSeq == <<"a", "b", "c">>

\* Dependency graphs: the requested set is a, a b or a b c in that order, each
\* at v1 or v2; version v2 of a package declares the chosen list and v1 the
\* same list without its last name (a newer version adds a dependency);
\* every package is a noop package.  A name that is not requested serves as
\* the missing dependency.
GraphRepo(n, d) ==
    [x \in Names |->
        LET k == CHOOSE j \in 1..3 : NameSeq[j] = x
        IN  [v \in Versions |->
                IF k > n THEN Meta("noop", {"make"}, <<>>, NoUrl, NoHash)
                ELSE Meta("noop", DepKeys(d[k]),
                          IF v = "v2" THEN d[k].list ELSE Front(d[k].list),
                          NoUrl, NoHash)]]

GraphInputs ==
    {[pkgs |-> [k \in 1..n |-> [name |-> NameSeq[k], ver |-> vs[k]]],
      repo |-> GraphRepo(n, d),
      environ |-> Environ(Unset)] :
        n \in 1..3, vs \in [1..3 -> Versions], d \in [1..3 -> DepChoices]}

\* Metadata: one or two packages at v1, the second may depend on the first
\* or the first on the second.  One package (the focus) has any build method,
\* any subset of the download keys and pypi_package_name or not; the other has
\* one of the consistent entries.
AllMethods == Methods \cup {"meson"}

KeyedUrl(keys) == IF "url" \in keys THEN [scheme |-> "https"] ELSE NoUrl
KeyedHash(keys) ==
    IF "hash" \in keys THEN [type |-> "sha256", value |-> DeclaredDigest] ELSE NoHash

FocusMetas ==
    {Meta(m, {"make"} \cup dk \cup py, <<>>, KeyedUrl(dk), KeyedHash(dk)) :
        m \in AllMethods, dk \in SUBSET download_keys,
        py \in {{}, {"pypi_package_name"}}}
    \cup
    {Meta("download", {"make"} \cup download_keys, <<>>, u, h) :
        u \in Urls, h \in Hashes}

ConsistentMetas ==
    {Meta(m, {"make"}, <<>>, NoUrl, NoHash) : m \in Methods \ {"download"}}
    \cup
    {Meta("download", {"make"} \cup download_keys, <<>>,
          KeyedUrl(download_keys), KeyedHash(download_keys))}

WithDepends(meta, list) ==
    [meta EXCEPT !.keys = @ \cup {"depends"}, !.depends = list]

MetaRepo(ma, mb, dep) ==
    [x \in Names |->
        [v \in Versions |->
            CASE x = "a" -> IF dep = "a on b" THEN WithDepends(ma, <<"b">>) ELSE ma
              [] x = "b" -> IF dep = "b on a" THEN WithDepends(mb, <<"a">>) ELSE mb
              [] OTHER -> Meta("noop", {"make"}, <<>>, NoUrl, NoHash)]]

MetaInputs ==
    {[pkgs |-> <<[name |-> "a", ver |-> "v1"]>>,
      repo |-> MetaRepo(ma, ma, "none"),
      environ |-> Environ(ld)] :
        ma \in FocusMetas, ld \in LdChoices}
    \cup
    {[pkgs |-> <<[name |-> "a", ver |-> "v1"], [name |-> "b", ver |-> "v1"]>>,
      repo |-> MetaRepo(m[1], m[2], dep),
      environ |-> Environ(ld)] :
        m \in (FocusMetas \X ConsistentMetas) \cup (ConsistentMetas \X FocusMetas),
        dep \in {"none", "a on b", "b on a"}, ld \in LdChoices}

\* the strategies that are given makeopts (lines 330-379)
TakesMakeopts == {"cmake", "pip", "sh", "rsync"}

\* Build flags: two packages a and b, each built by a strategy that is given
\* flags (or by noop), with or without makeopts of their own; EXTRA_MAKEOPTS
\* unset, empty or set; the prefix absolute or relative.
OptsOfA == <<Lit("--with"), Lit("$(prefix)"), Lit("/lib:"), Lit("$(prefix)")>>
OptsOfB == <<Lit("-v")>>
ExtraChoices == {Unset, EnvValue(<<>>), EnvValue(<<Lit("-D"), Lit("$(prefix)")>>)}
Prefixes == {Prefix, Path(FALSE, <<"komodo">>)}

MakeoptsMetas(makeopts) ==
    LET plain == {Meta(m, {"make"}, <<>>, NoUrl, NoHash) : m \in TakesMakeopts \cup {"noop"}}
    IN  plain \cup {WithMakeopts(meta, makeopts) : meta \in plain}

MakeoptsInputs ==
    {[pkgs |-> <<[name |-> "a", ver |-> "v1"], [name |-> "b", ver |-> "v1"]>>,
      repo |-> MetaRepo(ma, mb, "none"),
      environ |-> [Environ(Unset) EXCEPT !["EXTRA_MAKEOPTS"] = extra],
      prefix |-> prefix] :
        ma \in MakeoptsMetas(OptsOfA), mb \in MakeoptsMetas(OptsOfB),
        extra \in ExtraChoices, prefix \in Prefixes}

\* Destinations of a download: directly in bin, not under bin, in a directory
\* under bin, and a file named bin elsewhere.  Packages a and b are both
\* downloads with a well-formed url and hash.
Destinations ==
    {Path(FALSE, <<"bin", "tool">>), Path(FALSE, <<"lib", "tool">>),
     Path(FALSE, <<"bin", "sub", "tool">>), Path(FALSE, <<"lib", "bin">>)}

WithDestination(meta, destination) == [meta EXCEPT !.destination = destination]

DestinationInputs ==
    LET d == Meta("download", {"make"} \cup download_keys, <<>>,
                  KeyedUrl(download_keys), KeyedHash(download_keys))
    IN  {[pkgs |-> <<[name |-> "a", ver |-> "v1"], [name |-> "b", ver |-> "v1"]>>,
          repo |-> MetaRepo(WithDestination(d, da), WithDestination(d, db), "none"),
          environ |-> Environ(Unset)] :
            da \in Destinations, db \in Destinations}

Inputs == GraphInputs \cup MetaInputs \cup MakeoptsInputs \cup DestinationInputs

-----------------------------------------------------------------------------
(* State of a run *)

NoPath == Path(FALSE, <<>>)

\* the argument makeopts of a strategy
NotPassed == [passed |-> FALSE, val |-> <<>>]
Passed(makeopts) == [passed |-> TRUE, val |-> makeopts]

\* download has no response yet
NoResponse == [status_code |-> 0, body |-> <<>>]

NoCall ==
    [fn |-> "none", i |-> 0, package_name |-> "none", state |-> "none",
     step |-> "none", target |-> NoPath, pre_PATH |-> Unset,
     env_before |-> Environ(Unset), response |-> NoResponse,
     makeopts |-> NotPassed]

\* the argument prefix of make
PrefixOf(inp) == IF "prefix" \in DOMAIN inp THEN inp.prefix ELSE Prefix

\* insert_proposals is not running
NoGithub == [log |-> <<>>]
NoFrame == [pc |-> "none"]

\* cleanup is not running
NoCleanup == [pc |-> "none"]

Init ==
    /\ github = NoGithub
    /\ ip = NoFrame
    /\ cl = NoCleanup
    /\ stdout = <<>>
    /\ \E inp \in Inputs :
           /\ pkgs = inp.pkgs
           /\ repo = inp.repo
           /\ environ = inp.environ
           /\ pc = "resolve"
           /\ pkgorder = <<>>
           /\ idx = 0
           /\ ctx = [prefix |-> PrefixOf(inp), fakeprefix |-> NoPath,
                     ld_lib_path |-> <<>>, bin_path |-> <<>>,
              extra_makeopts |-> Unset]
           /\ call = NoCall
           /\ dirs = {}
           /\ files = {}
           /\ requests = {}
           /\ trace = <<>>
           /\ err = "none"
           /\ run = [n |-> 1, environ |-> inp.environ, installed |-> {},
                     prefix |-> PrefixOf(inp)]

Event(ev, c) == [ev |-> ev, i |-> c.i, fn |-> c.fn]

\* an exception leaves make: nothing catches it
Propagate(kind) ==
    /\ pc' = "failed"
    /\ err' = kind
    /\ UNCHANGED idx

-----------------------------------------------------------------------------
(* make, lines 260-298 *)

\* lines 260-268: the build plan, or the exception dfs raised
MakeResolve ==
    /\ pc = "resolve"
    /\ LET res == Resolution(pkgs, repo)
       IN  IF res.status = "ok"
           THEN /\ pkgorder' = res.list
                /\ pc' = "prepare"
                /\ err' = err
           ELSE /\ pkgorder' = pkgorder
                /\ pc' = "failed"
                /\ err' = res.status
    /\ UNCHANGED <<cl, stdout, github, ip, pkgs, repo, run, environ, idx, ctx, call, dirs, files, requests, trace>>

\* lines 279-288: ":".join(filter(None, [...])) drops an unset or empty variable
ld_lib_path_of(fakeprefix, env) ==
    <<PathJoin(fakeprefix, "lib"), PathJoin(fakeprefix, "lib64")>>
        \o (IF env["LD_LIBRARY_PATH"].set THEN env["LD_LIBRARY_PATH"].val ELSE <<>>)

\* line 291
bin_path_of(fakeprefix, env) == <<PathJoin(fakeprefix, "bin")>> \o env["PATH"].val

\* lines 270-298: mkdir -p of the staging directory, then the environment
\* and the paths shared by every entry
MakePrepare ==
    /\ pc = "prepare"
    /\ LET fakeprefix == PathPlus(Fakeroot, ctx.prefix)
       IN  \/ /\ dirs' = dirs \cup {fakeprefix}
              /\ environ' = [environ EXCEPT !["DESTDIR"] = EnvValue(<<Fakeroot>>),
                                            !["BOOST_ROOT"] = EnvValue(<<fakeprefix>>)]
              /\ ctx' = [prefix |-> abspath(ctx.prefix),
                         fakeprefix |-> fakeprefix,
                         ld_lib_path |-> ld_lib_path_of(fakeprefix, environ),
                         bin_path |-> bin_path_of(fakeprefix, environ),
                         extra_makeopts |-> environ["EXTRA_MAKEOPTS"]]
              /\ pc' = "loop"
              /\ idx' = 1
              /\ err' = err
           \/ \* the shell command mkdir fails
              /\ Propagate("ShellError")
              /\ UNCHANGED <<dirs, environ, ctx>>
    /\ UNCHANGED <<cl, stdout, github, ip, pkgs, repo, run, pkgorder, call, files, requests, trace>>

-----------------------------------------------------------------------------
(* make, lines 300-393: the loop over the build plan *)

Entry(i) == repo[pkgorder[i]][VersionOf(pkgs, pkgorder[i])]

\* (mutant) all() in place of any() at line 307
DownloadKeysErrorAllPresent(current) ==
    IF (\A key \in download_keys : key \in current.keys) /\ current.make # "download"
    THEN "ValueError: only valid with 'make: download'"
    ELSE IF ~(\A key \in download_keys : key \in current.keys) /\ current.make = "download"
    THEN "ValueError: all required with 'make: download'"
    ELSE "none"

\* lines 306-314
DownloadKeysError(current) ==
    IF (\E key \in download_keys : key \in current.keys) /\ current.make # "download"
    THEN "ValueError: only valid with 'make: download'"
    ELSE IF ~(\A key \in download_keys : key \in current.keys) /\ current.make = "download"
    THEN "ValueError: all required with 'make: download'"
    ELSE "none"

\* lines 316-318
PypiNameError(current) ==
    IF "pypi_package_name" \in current.keys /\ current.make # "pip"
    THEN "ValueError: pypi_package_name is only valid when building with pip"
    ELSE "none"

\* lines 306-318, in the order of the code
ValidationError(current) ==
    IF DownloadKeysError(current) # "none" THEN DownloadKeysError(current)
    ELSE PypiNameError(current)

\* the name in pkgorder, whatever the entry says
OwnName(current, package_name) == package_name

\* line 320
PackageName(current, package_name) ==
    IF "pypi_package_name" \in current.keys THEN "pypi-name" ELSE package_name

\* where each strategy is told to put the package, by the arguments make gives
\* it: rpm unpacks in the directory prefix (lines 49-53), cmake installs with
\* DESTDIR=fakeroot and CMAKE_INSTALL_PREFIX=prefix (lines 90, 103), pip with
\* --root fakeroot --prefix prefix (lines 216-217), sh passes --prefix and
\* --fakeroot to the script (lines 130-131), rsync copies to fakeroot + prefix
\* (line 157), download writes below fakeroot + prefix (lines 176-177)
rpm_target(prefix) == prefix
cmake_target(prefix, fakeroot) == PathPlus(fakeroot, prefix)
pip_target(prefix, fakeroot) == PathPlus(fakeroot, prefix)
sh_target(prefix, fakeroot) == PathPlus(fakeroot, prefix)
rsync_target(prefix, fakeroot) == PathPlus(fakeroot, prefix)
download_target(prefix, fakeroot) == PathPlus(fakeroot, prefix)

Target(fn, prefix, fakeroot) ==
    CASE fn = "rpm" -> rpm_target(prefix)
      [] fn = "cmake" -> cmake_target(prefix, fakeroot)
      [] fn = "pip" -> pip_target(prefix, fakeroot)
      [] fn = "sh" -> sh_target(prefix, fakeroot)
      [] fn = "rsync" -> rsync_target(prefix, fakeroot)
      [] fn = "download" -> download_target(prefix, fakeroot)
      [] OTHER -> NoPath

\* replaces the first placeholder only
RECURSIVE resolve_first(_, _)
resolve_first(input_str, prefix) ==
    IF input_str = <<>> THEN <<>>
    ELSE IF Head(input_str) = Lit("$(prefix)")
    THEN <<Dir(prefix)>> \o Tail(input_str)
    ELSE <<Head(input_str)>> \o resolve_first(Tail(input_str), prefix)

\* lines 297-298: str.replace replaces every occurrence
resolve(input_str, prefix) ==
    [k \in DOMAIN input_str |->
        IF input_str[k] = Lit("$(prefix)") THEN Dir(prefix) ELSE input_str[k]]

\* lines 322-325
Makeopts(current, c) ==
    LET makeopts == IF "makeopts" \in current.keys THEN current.makeopts ELSE <<>>
        extra_makeopts == c.extra_makeopts
        merged == IF extra_makeopts.set /\ extra_makeopts.val # <<>>
                  THEN makeopts \o <<Lit(" ")>> \o extra_makeopts.val
                  ELSE makeopts
    IN  resolve(merged, c.prefix)

\* the call of strategy fn for the entry at idx
Invoke(fn) ==
    LET c == [fn |-> fn, i |-> idx,
              package_name |-> PackageName(Entry(idx), pkgorder[idx]),
              state |-> "running", step |-> "enter",
              target |-> Target(fn, ctx.prefix, Fakeroot),
              pre_PATH |-> Unset, env_before |-> environ,
              response |-> NoResponse,
              makeopts |-> IF fn \in TakesMakeopts
                           THEN Passed(Makeopts(Entry(idx), ctx))
                           ELSE NotPassed]
    IN  /\ call' = c
        /\ trace' = Append(trace, Event("call", c))
        /\ pc' = "strategy"
        /\ UNCHANGED <<idx, err>>

\* lines 329-393: the if/elif chain; rpm is not one of its branches
ChainMethods == {"cmake", "pip", "sh", "rsync", "noop", "download"}

Chain(make) ==
    IF make \in ChainMethods
    THEN Invoke(make)
    ELSE /\ Propagate("ValueError: Non-supported make")
         /\ UNCHANGED <<call, trace>>

\* lines 300-328, and the chain when line 327 does not call rpm
MakeEntry ==
    /\ pc = "loop"
    /\ idx <= Len(pkgorder)
    /\ LET current == Entry(idx)
       IN  IF ValidationError(current) # "none"
           THEN /\ Propagate(ValidationError(current))
                /\ UNCHANGED <<call, trace>>
           ELSE IF current.make = "rpm"
           THEN Invoke("rpm")
           ELSE Chain(current.make)
    /\ UNCHANGED <<cl, stdout, github, ip, pkgs, repo, run, environ, pkgorder, ctx, dirs, files, requests>>

\* lines 329-393 after rpm has returned at line 328
MakeChain ==
    /\ pc = "chain"
    /\ Chain(Entry(idx).make)
    /\ UNCHANGED <<cl, stdout, github, ip, pkgs, repo, run, environ, pkgorder, ctx, dirs, files, requests>>

\* the loop has no entry left: make returns
MakeReturn ==
    /\ pc = "loop"
    /\ idx > Len(pkgorder)
    /\ pc' = "done"
    /\ UNCHANGED <<cl, stdout, github, ip, pkgs, repo, run, environ, pkgorder, idx, ctx, call, dirs, files, requests, trace, err>>

-----------------------------------------------------------------------------
(* The strategies *)

Running(fn) == pc = "strategy" /\ call.fn = fn /\ call.state = "running"

\* the strategy returns to make: to line 329 from rpm, to the next entry
\* from a branch of the chain
Return(c) ==
    /\ call' = [c EXCEPT !.state = "returned"]
    /\ trace' = Append(trace, Event("return", c))
    /\ IF c.fn = "rpm"
       THEN pc' = "chain" /\ idx' = idx
       ELSE pc' = "loop" /\ idx' = idx + 1
    /\ err' = err

\* (mutant) make catches the exception of a strategy and goes on with the
\* next entry
RaiseAndContinue(c, kind) ==
    /\ call' = [c EXCEPT !.state = "raised"]
    /\ trace' = Append(trace, Event("raise", c))
    /\ pc' = "loop"
    /\ idx' = idx + 1
    /\ err' = kind

\* the strategy raises: the exception leaves the strategy and make
Raise(c, kind) ==
    /\ call' = [c EXCEPT !.state = "raised"]
    /\ trace' = Append(trace, Event("raise", c))
    /\ Propagate(kind)

\* a file or a package's files on disk: writing replaces what is at the path
File(path, pkg, content, mode) ==
    [path |-> path, pkg |-> pkg, content |-> content, mode |-> mode]

Write(fs, f) == {g \in fs : g.path # f.path \/ g.pkg # f.pkg} \cup {f}

Installed(c) == File(c.target, c.package_name, <<"installed">>, "plain")

\* lines 230-231
noop ==
    /\ Running("noop")
    /\ Return(call)
    /\ UNCHANGED <<cl, stdout, github, ip, pkgs, repo, run, environ, pkgorder, ctx, dirs, files, requests>>

\* a strategy that is shell commands: they install the package, or one fails
ShellInstall(fn) ==
    /\ Running(fn)
    /\ \/ /\ files' = Write(files, Installed(call))
          /\ Return(call)
       \/ /\ Raise(call, "ShellError")
          /\ UNCHANGED files
    /\ UNCHANGED <<cl, stdout, github, ip, pkgs, repo, run, environ, pkgorder, ctx, dirs, requests>>

\* lines 47-53
rpm == ShellInstall("rpm")

\* lines 109-146
sh == ShellInstall("sh")

\* lines 149-159
rsync == ShellInstall("rsync")

\* lines 209-227
pip_install == ShellInstall("pip")

\* lines 78-98: the build directory, then the two variables are overwritten
cmake_enter ==
    /\ Running("cmake")
    /\ call.step = "enter"
    /\ dirs' = dirs \cup {Path(FALSE, <<call.package_name, "build">>)}
    /\ environ' = [environ EXCEPT !["LD_LIBRARY_PATH"] = EnvValue(ctx.ld_lib_path),
                                  !["PATH"] = EnvValue(ctx.bin_path)]
    /\ call' = [call EXCEPT !.pre_PATH = environ["PATH"], !.step = "configure"]
    /\ UNCHANGED <<cl, stdout, github, ip, pkgs, repo, run, pc, pkgorder, idx, ctx, files, requests, trace, err>>

CmakeNext(step) ==
    CASE step = "configure" -> "build"
      [] step = "build" -> "install"
      [] OTHER -> "restore"

\* lines 101-103: configure, build, install; a failing command raises from
\* inside the with block
cmake_shell ==
    /\ Running("cmake")
    /\ call.step \in {"configure", "build", "install"}
    /\ \/ /\ call' = [call EXCEPT !.step = CmakeNext(call.step)]
          /\ files' = IF call.step = "install"
                      THEN Write(files, Installed(call)) ELSE files
          /\ UNCHANGED <<pc, idx, trace, err>>
       \/ /\ Raise(call, "ShellError")
          /\ UNCHANGED files
    /\ UNCHANGED <<cl, stdout, github, ip, pkgs, repo, run, environ, pkgorder, ctx, dirs, requests>>

\* lines 105-106, reached when the three commands succeeded
RestoreEnviron(env, pre_PATH) ==
    [env EXCEPT !["LD_LIBRARY_PATH"] = Unset, !["PATH"] = pre_PATH]

cmake_exit ==
    /\ Running("cmake")
    /\ call.step = "restore"
    /\ environ' = RestoreEnviron(environ, call.pre_PATH)
    /\ Return(call)
    /\ UNCHANGED <<cl, stdout, github, ip, pkgs, repo, run, pkgorder, ctx, dirs, files, requests>>

\* the check of line 165 left out
startswith_anything(url) == TRUE

\* line 165: url.startswith("https")
startswith_https(url) == url.scheme \in {"https", "httpsx"}

\* lines 179-181: the session sends the request through the adapter mounted
\* for the beginning of the url ("https://" and, by default, "http://"); for
\* any other url Session.get raises InvalidSchema and sends nothing
get_adapter(url) == url.scheme \in {"https", "http"}

\* the check of line 173 left out
any_hash_type(hash_type) == TRUE

\* line 173
hash_type_implemented(hash_type) == hash_type = "sha256"

\* line 177: Path / Path, an absolute right operand replaces the left one
PathDiv(a, b) == IF b.abs THEN b ELSE Path(a.abs, a.parts \o b.parts)

\* line 203
InBin(path) == \E k \in DOMAIN path.parts : path.parts[k] = "bin"

\* what the server answers: a body of up to MaxChunks chunks with status 200,
\* or another status (its body is not read)
Bodies == UNION {[1..n -> Chunks] : n \in 0..MaxChunks}
Responses ==
    {[status_code |-> 200, body |-> body] : body \in Bodies}
    \cup {[status_code |-> 404, body |-> <<>>]}

\* a digest of the last chunk only
sha256_update_last(sha256, chunk) == <<chunk>>

\* line 193
sha256_update(sha256, chunk) == Append(sha256, chunk)

\* lines 190-193: every chunk is written to the file and fed to the digest
RECURSIVE iter_content(_, _, _)
iter_content(body, file, sha256) ==
    IF body = <<>> THEN [file |-> file, sha256 |-> sha256]
    ELSE iter_content(Tail(body), Append(file, Head(body)),
                      sha256_update(sha256, Head(body)))

\* line 189: open(dest_path, "wb") truncates a file that exists and keeps its
\* mode; a new file is not executable
ModeAt(fs, path) ==
    IF \E g \in fs : g.path = path /\ g.mode = "executable"
    THEN "executable" ELSE "plain"

\* nothing is written
NoWrite(fs, f) == fs

WriteFile(fs, f) == {g \in fs : g.path # f.path} \cup {f}

\* lines 162-206
download ==
    /\ Running("download")
    /\ LET current == Entry(call.i)
           dest_path == PathDiv(call.target, current.destination)
       IN  IF ~startswith_https(current.url)
           THEN /\ Raise(call, "ValueError: does not use https")
                /\ UNCHANGED <<files, requests>>
           ELSE IF ~hash_type_implemented(current.hash.type)
           THEN /\ Raise(call, "NotImplementedError: only sha256 implemented")
                /\ UNCHANGED <<files, requests>>
           ELSE IF ~get_adapter(current.url)
           THEN /\ Raise(call, "InvalidSchema")
                /\ UNCHANGED <<files, requests>>
           ELSE \E response \in Responses :
                LET c == [call EXCEPT !.response = response]
                IN
                /\ requests' = requests \cup {current.url}
                /\ IF response.status_code # 200
                   THEN /\ Raise(c, "RuntimeError: status code")
                        /\ UNCHANGED files
                   ELSE LET written == iter_content(response.body, <<>>, <<>>)
                            hexdigest == written.sha256
                            mode == ModeAt(files, dest_path)
                        IN  IF hexdigest # current.hash.value
                            THEN /\ files' = WriteFile(files,
                                        File(dest_path, c.package_name,
                                             written.file, mode))
                                 /\ Raise(c, "ValueError: hash not equal")
                            ELSE /\ files' = WriteFile(files,
                                        File(dest_path, c.package_name,
                                             written.file,
                                             IF InBin(dest_path) THEN "executable"
                                             ELSE mode))
                                 /\ Return(c)
    /\ UNCHANGED <<cl, stdout, github, ip, pkgs, repo, run, environ, pkgorder, ctx, dirs>>

-----------------------------------------------------------------------------
(* make is run again with the same arguments, in a new process, against the
   staging root the earlier run left *)

Calls == {t \in DOMAIN trace : trace[t].ev = "call"}
Returns == {t \in DOMAIN trace : trace[t].ev = "return"}
Raises == {t \in DOMAIN trace : trace[t].ev = "raise"}

\* the files of the packages whose strategy returned
FullyInstalled ==
    {f \in files : \E t \in Returns : PackageName(Entry(trace[t].i), pkgorder[trace[t].i]) = f.pkg}

Rerun ==
    /\ pc \in {"done", "failed"}
    /\ run.n = 1
    /\ FullyInstalled # {}
    /\ run' = [run EXCEPT !.n = 2, !.installed = FullyInstalled]
    /\ environ' = run.environ
    /\ pc' = "resolve"
    /\ pkgorder' = <<>>
    /\ idx' = 0
    /\ ctx' = [prefix |-> run.prefix, fakeprefix |-> NoPath,
               ld_lib_path |-> <<>>, bin_path |-> <<>>,
              extra_makeopts |-> Unset]
    /\ call' = NoCall
    /\ requests' = {}
    /\ trace' = <<>>
    /\ err' = "none"
    /\ UNCHANGED <<cl, stdout, github, ip, pkgs, repo, dirs, files>>

-----------------------------------------------------------------------------

Next ==
    \/ MakeResolve
    \/ MakePrepare
    \/ MakeEntry
    \/ MakeChain
    \/ MakeReturn
    \/ noop
    \/ rpm
    \/ sh
    \/ rsync
    \/ pip_install
    \/ cmake_enter
    \/ cmake_shell
    \/ cmake_exit
    \/ download
    \/ Rerun

Spec == Init /\ [][Next]_vars

-----------------------------------------------------------------------------
(* The dependency graph of the requested set, read off repo and pkgs *)

DeclaredDeps(x) ==
    LET current == repo[x][VersionOf(pkgs, x)]
    IN  IF "depends" \in current.keys
        THEN {current.depends[k] : k \in DOMAIN current.depends}
        ELSE {}

\* every declared dependency of a requested package is requested
Complete == \A x \in Requested(pkgs) : DeclaredDeps(x) \subseteq Requested(pkgs)

RECURSIVE Closure(_, _)
Closure(S, n) ==
    IF n = 0 THEN S
    ELSE Closure(S \cup UNION {DeclaredDeps(y) : y \in S \cap Requested(pkgs)}, n - 1)

TransitiveDeps(x) == Closure(DeclaredDeps(x), Cardinality(Names))

Acyclic == \A x \in Requested(pkgs) : x \notin TransitiveDeps(x)

Position(x) == CHOOSE k \in DOMAIN pkgorder : pkgorder[k] = x

ResolutionErrors == {"SystemExit", "RecursionError"}

-----------------------------------------------------------------------------
(* C1 *)

\* C1: when the dependency graph of the requested set is acyclic and every
\* declared dependency is requested, resolution succeeds and the build plan
\* holds exactly the requested names, each once, every package after all of
\* its transitive dependencies (taken at the requested versions).
C1_BuildOrder ==
    (pc # "resolve" /\ Acyclic /\ Complete) =>
        /\ err \notin ResolutionErrors
        /\ Len(pkgorder) = Cardinality(Requested(pkgs))
        /\ {pkgorder[k] : k \in DOMAIN pkgorder} = Requested(pkgs)
        /\ \A x \in Requested(pkgs) : \A y \in TransitiveDeps(x) :
               Position(y) < Position(x)

\* a plan of three packages that is not the declaration order, for a package
\* with two transitive dependencies
C1_Witness ==
    /\ pc = "prepare" /\ Acyclic /\ Complete
    /\ Len(pkgorder) = 3
    /\ pkgorder # [k \in DOMAIN pkgs |-> pkgs[k].name]
    /\ \E x \in Requested(pkgs) : Cardinality(TransitiveDeps(x)) = 2

-----------------------------------------------------------------------------
(* C2 *)

MissingDependency == ~Complete

\* C2: when a requested package declares, at its requested version, a
\* dependency that is not requested, resolution ends with the fatal
\* configuration error of dfs (sys.exit), before the staging directory is
\* created and before any strategy is invoked.
C2_MissingDependencyIsConfigurationError ==
    (pc # "resolve" /\ MissingDependency) =>
        /\ pc = "failed"
        /\ err = "SystemExit"
        /\ dirs = {}
        /\ trace = <<>>

\* the same on the acyclic graphs only: there dfs reaches the check of line 29
\* for the package that declares the missing name
MissingDependencyExitsWhenAcyclic ==
    (pc # "resolve" /\ MissingDependency /\ Acyclic) =>
        (pc = "failed" /\ err = "SystemExit" /\ dirs = {} /\ trace = <<>>)

\* on every graph, a missing dependency ends the run in resolution
MissingDependencyStopsResolution ==
    (pc # "resolve" /\ MissingDependency) =>
        (pc = "failed" /\ err \in ResolutionErrors /\ dirs = {} /\ trace = <<>>)

-----------------------------------------------------------------------------
(* C3 *)

\* C3: strategies are invoked one at a time in the order of the build plan:
\* a call is made only when every earlier call has returned, the calls are
\* for the entries 1, 2, ... of the plan in turn, and at the call for a
\* package the strategy of each of its transitive dependencies has been
\* called and has returned.
C3_OneAtATimeInPlanOrder ==
    /\ Cardinality(Calls) - Cardinality(Returns) - Cardinality(Raises) \in {0, 1}
    /\ \A t \in Calls : t > 1 => trace[t - 1].ev = "return"
    /\ \A t \in Calls : trace[t].i = Cardinality({u \in Calls : u <= t})
    /\ \A t \in Calls : \A y \in TransitiveDeps(pkgorder[trace[t].i]) :
           \E u \in Returns : u < t /\ pkgorder[trace[u].i] = y

\* the strategy of a package with a dependency has been called
C3_Witness ==
    \E t \in Calls :
        /\ TransitiveDeps(pkgorder[trace[t].i]) # {}
        /\ pkgorder[trace[t].i] = pkgs[1].name

-----------------------------------------------------------------------------
(* C4 *)

StrategyErrors ==
    {"ShellError", "ValueError: does not use https",
     "NotImplementedError: only sha256 implemented", "InvalidSchema",
     "RuntimeError: status code", "ValueError: hash not equal"}

\* the entry at idx has been validated (make is past line 318 for it)
Validated == idx \in DOMAIN pkgorder /\ pc \in {"strategy", "chain", "failed"}

\* C4: fail-fast.  A strategy that raises is the last thing make does: make
\* has ended with the strategy's error, nothing is called after it and it is
\* not called again.  An entry whose metadata fails validation ends make with
\* the validation error and no strategy is called for it or a later entry.
C4_FailFast ==
    /\ \A t \in Raises :
           /\ t = Len(trace)
           /\ pc = "failed"
           /\ err \in StrategyErrors
           /\ idx = trace[t].i
    /\ \A t, u \in Calls : trace[t].i = trace[u].i => t = u
    /\ (Validated /\ ValidationError(Entry(idx)) # "none") =>
           /\ pc = "failed"
           /\ err = ValidationError(Entry(idx))
    /\ pc = "failed" => \A t \in DOMAIN trace : trace[t].i <= idx
    /\ (pc = "failed" /\ idx \in DOMAIN pkgorder /\ ValidationError(Entry(idx)) # "none") =>
           \A t \in DOMAIN trace : trace[t].i < idx

\* the strategy of the first of two entries raised
C4_Witness ==
    /\ pc = "failed"
    /\ Len(pkgorder) = 2
    /\ idx = 1
    /\ Raises # {}

-----------------------------------------------------------------------------
(* C5 *)

StagingRoot == PathPlus(Fakeroot, Prefix)

\* C5: an entry with consistent metadata and one of the methods cmake, pip,
\* sh, rsync, rpm, download, noop gets the strategy of its method, once; when
\* the strategy has returned make goes on, and make returns without error when
\* every strategy has; 'Non-supported make' is raised for other methods only.
C5_ExactlyOneStrategyPerSupportedEntry ==
    /\ \A t \in Calls : trace[t].fn = Entry(trace[t].i).make
    /\ \A t, u \in Calls : trace[t].i = trace[u].i => t = u
    /\ (Validated /\ ValidationError(Entry(idx)) = "none" /\ Entry(idx).make \in Methods) =>
           \E t \in Calls : trace[t].i = idx
    /\ \A t \in Returns : ~(pc = "failed" /\ idx = trace[t].i)
    /\ err = "ValueError: Non-supported make" => Entry(idx).make \notin Methods
    /\ pc = "done" =>
           /\ err = "none"
           /\ \A k \in DOMAIN pkgorder : \E t \in Returns : trace[t].i = k

-----------------------------------------------------------------------------
(* C6 *)

FileWriting == {"cmake", "pip", "rpm", "rsync", "download", "sh"}

\* C6: every file-writing strategy writes below the staging root (fakeroot +
\* prefix): when it has returned the package's files are there, and no file
\* is anywhere else.
C6_FilesOnlyUnderStagingRoot ==
    /\ \A f \in files : IsUnder(f.path, StagingRoot)
    /\ \A t \in Returns : trace[t].fn \in FileWriting =>
           \E f \in files : IsUnder(f.path, StagingRoot)
                            /\ f.pkg = PackageName(Entry(trace[t].i), pkgorder[trace[t].i])

-----------------------------------------------------------------------------
(* C7, C8 *)

Restored ==
    /\ environ["LD_LIBRARY_PATH"] = call.env_before["LD_LIBRARY_PATH"]
    /\ environ["PATH"] = call.env_before["PATH"]

\* C7: when cmake has returned, LD_LIBRARY_PATH and PATH are what they were
\* immediately before the call, unset if they were unset.
C7_CmakeRestoresEnvironOnReturn ==
    (call.fn = "cmake" /\ call.state = "returned") => Restored

\* C8: when cmake has raised from its configure, build or install command,
\* LD_LIBRARY_PATH and PATH are what they were immediately before the call.
C8_CmakeRestoresEnvironOnFailure ==
    (call.fn = "cmake" /\ call.state = "raised") => Restored

-----------------------------------------------------------------------------
(* C9 *)

ConfigurationErrors ==
    {"SystemExit",
     "ValueError: only valid with 'make: download'",
     "ValueError: all required with 'make: download'",
     "ValueError: pypi_package_name is only valid when building with pip",
     "NotImplementedError: only sha256 implemented",
     "ValueError: Non-supported make"}

\* C9: a configuration error of any entry ends make before any side effect:
\* the staging directory has not been created and no strategy has been called.
C9_ConfigurationErrorsBeforeSideEffects ==
    err \in ConfigurationErrors =>
        /\ dirs = {}
        /\ files = {}
        /\ requests = {}
        /\ trace = <<>>

-----------------------------------------------------------------------------
(* C10 *)

DownloadFieldsWithoutMethod(current) ==
    current.keys \cap download_keys # {} /\ current.make # "download"

DownloadMethodWithoutFields(current) ==
    current.make = "download" /\ ~(download_keys \subseteq current.keys)

\* C10: for the entry make has validated, (a) a download field with another
\* method and (b) the download method without all three fields end make with
\* the ValueError of that case before a strategy is called for the entry;
\* in every other case neither ValueError is raised.  No strategy is ever
\* called for an entry in case (a) or (b).
C10_DownloadFieldsValidation ==
    /\ \A t \in Calls :
           /\ ~DownloadFieldsWithoutMethod(Entry(trace[t].i))
           /\ ~DownloadMethodWithoutFields(Entry(trace[t].i))
    /\ Validated =>
           /\ DownloadFieldsWithoutMethod(Entry(idx)) =>
                  pc = "failed" /\ err = "ValueError: only valid with 'make: download'"
           /\ DownloadMethodWithoutFields(Entry(idx)) =>
                  pc = "failed" /\ err = "ValueError: all required with 'make: download'"
           /\ (~DownloadFieldsWithoutMethod(Entry(idx))
               /\ ~DownloadMethodWithoutFields(Entry(idx))) =>
                  err \notin {"ValueError: only valid with 'make: download'",
                              "ValueError: all required with 'make: download'"}

\* the second entry has one download field and the method pip: make has
\* failed on it after the strategy of the first entry returned
C10_Witness ==
    /\ pc = "failed"
    /\ idx = 2
    /\ Entry(idx).make = "pip"
    /\ Entry(idx).keys \cap download_keys = {"hash"}
    /\ err = "ValueError: only valid with 'make: download'"
    /\ Returns # {}

-----------------------------------------------------------------------------
(* C11 *)

CycleErrors == {"SystemExit"}

\* C11: when the dependency graph of the requested set has a cycle (a package
\* that depends on itself included), resolution ends with a fatal
\* configuration error (the exit of dfs) and not with the exhaustion of the
\* interpreter's recursion depth; nothing is created and nothing is built.
C11_CycleIsConfigurationError ==
    (pc # "resolve" /\ ~Acyclic) =>
        /\ pc = "failed"
        /\ err \in CycleErrors
        /\ dirs = {}
        /\ trace = <<>>

\* what dfs does on a cycle whose packages declare only requested names: it
\* recurses until the recursion limit
CycleExhaustsRecursion ==
    (pc # "resolve" /\ ~Acyclic /\ Complete) =>
        (pc = "failed" /\ err = "RecursionError" /\ dirs = {} /\ trace = <<>>)

-----------------------------------------------------------------------------
(* C12 *)

Needed == packages_needed(1, pkgs, repo)

FirstEmission(list, x) == CHOOSE k \in DOMAIN list :
    list[k] = x /\ \A j \in 1..(k - 1) : list[j] # x

\* C12: when resolution succeeds, the build plan holds every name of the
\* concatenated per-root emission lists exactly once, and two names are in
\* the plan in the order of their first emissions.
C12_DedupKeepsFirstEmissions ==
    (pc # "resolve" /\ err \notin ResolutionErrors) =>
        LET list == Needed.list
        IN  /\ {pkgorder[k] : k \in DOMAIN pkgorder} = {list[k] : k \in DOMAIN list}
            /\ \A j, k \in DOMAIN pkgorder : pkgorder[j] = pkgorder[k] => j = k
            /\ \A j, k \in DOMAIN pkgorder :
                   j < k <=> FirstEmission(list, pkgorder[j]) < FirstEmission(list, pkgorder[k])

\* a root that was emitted before as the dependency of an earlier root, with
\* another name emitted between its two emissions
C12_Witness ==
    /\ pc = "prepare"
    /\ LET list == Needed.list
       IN  \E i, j, k \in DOMAIN list :
               /\ i < j /\ j < k
               /\ list[i] = list[k] /\ list[j] # list[i]
               /\ list[i] \in DeclaredDeps(list[j])
               /\ \A n \in 1..(i - 1) : list[n] # list[i]

-----------------------------------------------------------------------------
(* C13, C14, C15: download *)

\* the call of download that is running ends in this step
DownloadEnds == Running("download") /\ call'.state # "running"

DestPath == PathDiv(call.target, Entry(call.i).destination)

\* C13: a call of download for a url that does not begin with "https://"
\* ends with an exception that ends make (the ValueError of the url check,
\* the error of the hash type, or InvalidSchema from the session), and in
\* that call no request is sent and no file is created or written.
C13_NonHttpsUrlRejected ==
    [][(DownloadEnds /\ Entry(call.i).url.scheme # "https") =>
          /\ call'.state = "raised"
          /\ pc' = "failed"
          /\ err' \in {"ValueError: does not use https", "InvalidSchema",
                       "NotImplementedError: only sha256 implemented"}
          /\ requests' = requests
          /\ files' = files]_vars

\* download has raised for a url whose scheme begins with https and is not
\* https: the check of line 165 let it pass
C13_Witness ==
    /\ call.fn = "download" /\ call.state = "raised"
    /\ Entry(call.i).url.scheme = "httpsx"
    /\ Entry(call.i).hash.type = "sha256"
    /\ err = "InvalidSchema"

\* C14: a call of download for a hash whose type is not sha256 ends with a
\* configuration error (NotImplementedError, or the ValueError of the url
\* check, which comes first) that ends make, and in that call no request is
\* sent and no file is created or written.
C14_OnlySha256 ==
    [][(DownloadEnds /\ Entry(call.i).hash.type # "sha256") =>
          /\ call'.state = "raised"
          /\ pc' = "failed"
          /\ err' = (IF startswith_https(Entry(call.i).url)
                     THEN "NotImplementedError: only sha256 implemented"
                     ELSE "ValueError: does not use https")
          /\ requests' = requests
          /\ files' = files]_vars

\* download has raised NotImplementedError for an md5 hash and an https url
C14_Witness ==
    /\ call.fn = "download" /\ call.state = "raised"
    /\ Entry(call.i).url.scheme = "https"
    /\ Entry(call.i).hash.type = "md5"
    /\ err = "NotImplementedError: only sha256 implemented"
    /\ requests = {} /\ files = {}

\* the integrity error is the last thing make did
IntegrityErrorEndsMake ==
    err = "ValueError: hash not equal" =>
        /\ pc = "failed"
        /\ call.fn = "download" /\ call.state = "raised" /\ call.i = idx
        /\ trace[Len(trace)] = Event("raise", call)
        /\ \A t \in DOMAIN trace : trace[t].i <= idx

\* C15: when download has received a body with status 200, the bytes written
\* are the whole body, and download returns exactly when the digest of the
\* whole body is the declared one; otherwise it raises the integrity error,
\* has not changed the mode of the file (no chmod) and make ends there: no
\* entry after this one is dispatched.
C15_DigestOfWholeBody ==
    /\ []IntegrityErrorEndsMake
    /\ [][(DownloadEnds /\ call'.response.status_code = 200) =>
             LET f == CHOOSE g \in files' : g.path = DestPath
                 body == call'.response.body
             IN  /\ \E g \in files' : g.path = DestPath
                 /\ f.content = body
                 /\ IF body = Entry(call.i).hash.value
                    THEN call'.state = "returned"
                    ELSE /\ call'.state = "raised"
                         /\ err' = "ValueError: hash not equal"
                         /\ pc' = "failed"
                         /\ f.mode = ModeAt(files, DestPath)]_vars

\* the body differs from the declared one in its first chunk only, the
\* destination is under bin and was not there before, and the plan has a
\* later entry
C15_Witness ==
    /\ err = "ValueError: hash not equal"
    /\ call.response.body = <<"y", "y">>
    /\ Entry(call.i).hash.value = <<"x", "y">>
    /\ InBin(DestPath)
    /\ \E g \in files : g.path = DestPath /\ g.mode = "plain" /\ g.content = <<"y", "y">>
    /\ idx < Len(pkgorder)

-----------------------------------------------------------------------------
(* C16 *)

\* what is on disk for f is still there with the same content and mode (the
\* files a shell strategy installed are those of the package under the
\* target; a downloaded file is the file at its path)
Kept(f) ==
    \E g \in files :
        /\ g.path = f.path /\ g.content = f.content /\ g.mode = f.mode
        /\ f = Installed([target |-> f.path, package_name |-> f.pkg]) => g.pkg = f.pkg

\* C16: when make is run again with the same pkgs and repo against the
\* staging root an earlier run left, every file of a package the earlier run
\* had fully installed is there at the end of the second run with the same
\* content and mode.
C16_RerunKeepsInstalledFiles ==
    (run.n = 2 /\ pc \in {"done", "failed"}) => \A f \in run.installed : Kept(f)

\* the files installed by the strategies other than download are kept (a
\* shell command that fails is taken to leave the installed files alone)
RerunKeepsFilesNotDownloaded ==
    (run.n = 2 /\ pc \in {"done", "failed"}) =>
        \A f \in run.installed :
            f = Installed([target |-> f.path, package_name |-> f.pkg]) => Kept(f)

\* a second run in which no download receives a body other than the declared
\* one keeps every installed file
RerunKeepsFilesWhenBodiesAreTheSame ==
    (run.n = 2 /\ pc \in {"done", "failed"} /\ err # "ValueError: hash not equal") =>
        \A f \in run.installed : Kept(f)

-----------------------------------------------------------------------------
(* insert_proposals: the data *)

\* A name (of a release, of a branch) is the sequence of its parts between
\* the dots: "1111.11.rc2" is <<"1111", "11", "rc2">>.
split(name) == name

\* line 83: target + ".tmp"
tmp_target_of(target) == Append(target, "tmp")

\* line 102: f"{year}-{month}"
upgrade_key_of(year, month) == <<year, month>>

\* a version as ruamel loads it: 1.1.1 is a string, 3.7 is a float
Str(text) == [type |-> "str", text |-> text]
Float(text) == [type |-> "float", text |-> text]

\* a section of upgrade_proposals.yml: null, or a mapping package -> version
NoneSection == [null |-> TRUE, map |-> <<>>]
Section(map) == [null |-> FALSE, map |-> map]

\* dict.get: None for a key the mapping does not have
Get(mapping, key) == IF key \in DOMAIN mapping THEN mapping[key] ELSE NoneSection

\* the truth value of a section: None and the empty mapping are false
Truthy(section) == ~section.null /\ DOMAIN section.map # {}

\* the text of a file is YAML: write_to_string of a mapping, and what ruamel
\* loads from the text
write_to_string(mapping) == [yaml |-> mapping]
load(text) == text.yaml

\* the files of a branch
ReleaseFile(name) == [kind |-> "releases/matrices", name |-> name]
ProposalsFile == [kind |-> "upgrade_proposals.yml", name |-> <<>>]

Tree(proposals, repository, releases) ==
    [proposals |-> proposals, repository |-> repository, releases |-> releases]

\* repo.get_contents(filename, ref).content
get_contents(gh, file, ref) ==
    IF file = ProposalsFile THEN gh.branches[ref].proposals
    ELSE gh.branches[ref].releases[file.name]

\* lines 50-61
load_yaml_from_repo(gh, file, ref) == load(get_contents(gh, file, ref))

\* a mapping with that key only
PutAlone(mapping, key, value) == [k \in {key} |-> value]

\* a mapping with one more key, or another value at a key
Put(mapping, key, value) ==
    [k \in DOMAIN mapping \cup {key} |-> IF k = key THEN value ELSE mapping[k]]

\* only the packages the base has are given the proposed version
update_existing(left, right) ==
    [k \in DOMAIN left |-> IF k \in DOMAIN right THEN right[k] ELSE left[k]]

\* lines 16-26
IsMapping(v) == v.type = "map"

RECURSIVE recursive_update(_, _)
recursive_update(left, right) ==
    [k \in DOMAIN left \cup DOMAIN right |->
        IF k \notin DOMAIN right THEN left[k]
        ELSE IF IsMapping(right[k]) /\ k \in DOMAIN left /\ DOMAIN left[k].map # {}
        THEN [left[k] EXCEPT !.map = recursive_update(@, right[k].map)]
        ELSE right[k]]

\* the exceptions of lines 91, 98 and 105, and main's view of a return value
Exception(type, msg) == [type |-> type, msg |-> msg]
None == Exception("None", <<>>)
BranchExists(name) == Exception("ValueError", <<"Branch", name, "exists already">>)
NoSection(key) ==
    Exception("ValueError",
              <<"No section for this release", key, "in upgrade_proposals.yml">>)

-----------------------------------------------------------------------------
(* insert_proposals: the inputs *)

git_ref == <<"git_ref">>
Targets == {<<"1111", "11", "rc2">>, <<"rc2">>}
Base == <<"1111", "11", "rc1">>

BaseRelease == [p \in {"testlib1", "testlib2"} |-> Str("1.1.1")]

\* repository.yml: package -> the versions it lists
Repository ==
    [p \in {"testlib1", "testlib2", "addlib"} |->
        CASE p = "testlib1" -> {Str("1.1.1")}
          [] p = "testlib2" -> {Str("1.1.1"), Str("1.1.2"), Str("1.1.3")}
          [] p = "addlib" -> {Str("1.1.3")}]

OneVersion(p, v) == [q \in {p} |-> v]

\* the section of the target release: null, empty, an upgrade of a base
\* package, an upgrade and an addition, a version and a package that
\* repository.yml does not have, a float
Sections ==
    {NoneSection,
     Section(<<>>),
     Section(OneVersion("testlib2", Str("1.1.2"))),
     Section([p \in {"testlib2", "addlib"} |->
                 IF p = "addlib" THEN Str("1.1.3") ELSE Str("1.1.2")]),
     Section(OneVersion("addlib", Str("1.1.4"))),
     Section(OneVersion("package_does_not_exist", Str("1.1.4"))),
     Section(OneVersion("testlib2", Float("3.7")))}

OtherKey == <<"1111", "12">>
OtherSection == Section(OneVersion("testlib2", Str("1.1.3")))

\* upgrade_proposals.yml: the section of 1111-11 or not, that of 1111-12 or not
ProposalFiles ==
    {[k \in {<<"1111", "11">>, OtherKey} |->
         IF k = OtherKey THEN OtherSection ELSE sec] : sec \in Sections}
    \cup {[k \in {<<"1111", "11">>} |-> sec] : sec \in Sections}
    \cup {[k \in {OtherKey} |-> OtherSection], <<>>}

\* the branches that exist besides git_ref
BranchSets(target) == SUBSET {target, tmp_target_of(target)}

\* repository.yml with a version key that ruamel loads as a float
RepositoryWithFloat ==
    [Repository EXCEPT !["addlib"] = {Float("1.1"), Str("1.1.3")}]

Repositories == {Repository, RepositoryWithFloat}

InitialTree(proposals, repository) ==
    Tree(write_to_string(proposals), write_to_string(repository),
         [r \in {Base} |-> write_to_string(BaseRelease)])

Github(proposals, repository, existing, auto_delete) ==
    [branches |-> [b \in {git_ref} \cup existing |-> InitialTree(proposals, repository)],
     pulls |-> <<>>,
     log |-> <<>>,
     auto_delete |-> auto_delete]

\* the frame at the call insert_proposals(repo, base, target, git_ref, ...)
Frame(base, target, ref) ==
    [pc |-> "check_branches",
     base |-> base, target |-> target, git_ref |-> ref,
     tmp_target |-> <<>>, upgrade_key |-> <<>>,
     proposal_yaml |-> <<>>, base_dict |-> <<>>, result |-> write_to_string(<<>>),
     from_sha |-> [tree |-> <<>>],
     outcome |-> "running", value |-> None]

InitInsert ==
    /\ \E target \in Targets, proposals \in ProposalFiles, auto_delete \in BOOLEAN :
       \E existing \in BranchSets(target), repository \in Repositories :
           /\ github = Github(proposals, repository, existing, auto_delete)
           /\ ip = Frame(Base, target, git_ref)
    /\ pkgs = <<>>
    /\ repo = <<>>
    /\ environ = Environ(Unset)
    /\ pc = "none"
    /\ pkgorder = <<>>
    /\ idx = 0
    /\ ctx = [prefix |-> Prefix, fakeprefix |-> NoPath,
              ld_lib_path |-> <<>>, bin_path |-> <<>>,
              extra_makeopts |-> Unset]
    /\ call = NoCall
    /\ dirs = {}
    /\ files = {}
    /\ requests = {}
    /\ trace = <<>>
    /\ err = "none"
    /\ run = [n |-> 1, environ |-> Environ(Unset), installed |-> {}, prefix |-> Prefix]
    /\ cl = NoCleanup
    /\ stdout = <<>>

-----------------------------------------------------------------------------
(* insert_proposals: the steps, lines 80-184, and main, lines 72-77 *)

IpAt(at) == ip.pc = at /\ ip.outcome = "running"

\* return value
IpReturn(value) ==
    ip' = [ip EXCEPT !.pc = "returned", !.outcome = "return", !.value = value]

\* an exception leaves insert_proposals
IpRaise(exc) ==
    ip' = [ip EXCEPT !.pc = "raised", !.outcome = "raise", !.value = exc]

GithubException == Exception("GithubException", <<>>)

NoFile == [kind |-> "none", name |-> <<>>]
Op(op, branch, file, base) == [op |-> op, branch |-> branch, file |-> file, base |-> base]

Logged(gh, entry) == [gh EXCEPT !.log = Append(@, entry)]

\* repo.create_git_ref("refs/heads/" + name, sha)
CreateGitRef(gh, name, sha) ==
    Logged([gh EXCEPT !.branches =
                [b \in DOMAIN @ \cup {name} |-> IF b = name THEN sha.tree ELSE @[b]]],
           Op("create_git_ref", name, NoFile, <<>>))

DeleteBranch(gh, name) ==
    [gh EXCEPT !.branches = [b \in DOMAIN @ \ {name} |-> @[b]]]

\* lines 81-98: the parts of the target, and the two branches
check_branches ==
    /\ IpAt("check_branches")
    /\ IF Len(split(ip.target)) < 2
       THEN IpRaise(Exception("IndexError", <<>>))
       ELSE LET tmp_target == tmp_target_of(ip.target)
            IN  IF ip.target \in DOMAIN github.branches
                THEN IpReturn(BranchExists(ip.target))
                ELSE IF tmp_target \in DOMAIN github.branches
                THEN IpReturn(BranchExists(tmp_target))
                ELSE ip' = [ip EXCEPT !.pc = "load", !.tmp_target = tmp_target]
    /\ UNCHANGED github
    /\ UNCHANGED <<make_vars, cl, stdout>>

\* lines 101-113: the content of the new release
load_proposals ==
    /\ IpAt("load")
    /\ LET year == split(ip.target)[1]
           month == split(ip.target)[2]
           proposal_yaml == load_yaml_from_repo(github, ProposalsFile, ip.git_ref)
           upgrade_key == upgrade_key_of(year, month)
           upgrade == Get(proposal_yaml, upgrade_key)
       IN  IF upgrade_key \notin DOMAIN proposal_yaml
           THEN IpReturn(NoSection(upgrade_key))
           ELSE LET loaded == load_yaml_from_repo(github, ReleaseFile(ip.base), ip.git_ref)
                    base_dict == IF Truthy(upgrade)
                                 THEN recursive_update(loaded, upgrade.map)
                                 ELSE loaded
                IN  ip' = [ip EXCEPT !.pc = "create_tmp_ref",
                                     !.proposal_yaml = proposal_yaml,
                                     !.upgrade_key = upgrade_key,
                                     !.base_dict = base_dict,
                                     !.result = write_to_string(base_dict)]
    /\ UNCHANGED github
    /\ UNCHANGED <<make_vars, cl, stdout>>

\* lines 116-117
create_tmp_ref ==
    /\ IpAt("create_tmp_ref")
    /\ LET from_sha == [tree |-> github.branches[ip.git_ref]]
       IN  IF ip.tmp_target \in DOMAIN github.branches
           THEN IpRaise(GithubException) /\ UNCHANGED github
           ELSE /\ github' = CreateGitRef(github, ip.tmp_target, from_sha)
                /\ ip' = [ip EXCEPT !.pc = "create_file", !.from_sha = from_sha]
    /\ UNCHANGED <<make_vars, cl, stdout>>

\* lines 118-123
create_file ==
    /\ IpAt("create_file")
    /\ LET target_file == ReleaseFile(ip.target)
           branch == ip.tmp_target
       IN  IF ip.target \in DOMAIN github.branches[branch].releases
           THEN IpRaise(GithubException) /\ UNCHANGED github
           ELSE /\ github' = Logged(
                      [github EXCEPT !.branches[branch].releases =
                                         Put(@, ip.target, ip.result)],
                      Op("create_file", branch, target_file, <<>>))
                /\ ip' = [ip EXCEPT !.pc = "update_file"]
    /\ UNCHANGED <<make_vars, cl, stdout>>

\* the cleaned file written to git_ref itself
update_file_on_git_ref ==
    /\ IpAt("update_file")
    /\ LET proposal_yaml == [k \in DOMAIN ip.proposal_yaml |->
                                IF k = ip.upgrade_key THEN NoneSection
                                ELSE ip.proposal_yaml[k]]
           branch == ip.git_ref
       IN  /\ github' = [github EXCEPT
                             !.branches[branch].proposals = write_to_string(proposal_yaml),
                             !.log = Append(@, [op |-> "update_file", branch |-> branch,
                                                file |-> ProposalsFile, base |-> <<>>])]
           /\ ip' = [ip EXCEPT !.pc = "create_ref", !.proposal_yaml = proposal_yaml]
    /\ UNCHANGED <<make_vars, cl, stdout>>

\* lines 126-135
update_file ==
    /\ IpAt("update_file")
    /\ LET proposal_yaml == Put(ip.proposal_yaml, ip.upgrade_key, NoneSection)
           cleaned_upgrade == write_to_string(proposal_yaml)
           branch == ip.tmp_target
       IN  /\ github' = Logged(
                  [github EXCEPT !.branches[branch].proposals = cleaned_upgrade],
                  Op("update_file", branch, ProposalsFile, <<>>))
           /\ ip' = [ip EXCEPT !.pc = "create_ref", !.proposal_yaml = proposal_yaml]
    /\ UNCHANGED <<make_vars, cl, stdout>>

\* lines 138-160
pr_msg ==
    [release |-> ip.target, based_on |-> ip.base,
     diff |-> [from |-> get_contents(github, ReleaseFile(ip.base), ip.git_ref),
               to |-> ip.result]]

\* lines 138-162
create_ref ==
    /\ IpAt("create_ref")
    /\ IF ip.target \in DOMAIN github.branches
       THEN IpRaise(GithubException) /\ UNCHANGED github
       ELSE /\ github' = CreateGitRef(github, ip.target, ip.from_sha)
            /\ ip' = [ip EXCEPT !.pc = "create_tmp_pull"]
    /\ UNCHANGED <<make_vars, cl, stdout>>

Pull(title, body, head, base) ==
    [title |-> title, body |-> body, head |-> head, base |-> base, state |-> "open"]

\* lines 164-169
create_tmp_pull ==
    /\ IpAt("create_tmp_pull")
    /\ github' = Logged(
           [github EXCEPT !.pulls =
               Append(@, Pull(<<"Temporary PR", ip.target>>, "should not be seen",
                              ip.tmp_target, ip.target))],
           Op("create_pull", ip.tmp_target, NoFile, ip.target))
    /\ ip' = [ip EXCEPT !.pc = "merge"]
    /\ UNCHANGED <<make_vars, cl, stdout>>

\* lines 170-174: the squash merge puts the files of the head on the base;
\* GitHub deletes the head branch when the repository is set to do so
merge ==
    /\ IpAt("merge")
    /\ LET tmp_pr == github.pulls[Len(github.pulls)]
           merged == [github EXCEPT !.pulls[Len(github.pulls)].state = "merged",
                                    !.branches[tmp_pr.base] = github.branches[tmp_pr.head]]
       IN  github' = Logged(IF github.auto_delete
                            THEN DeleteBranch(merged, tmp_pr.head) ELSE merged,
                            Op("merge", tmp_pr.head, NoFile, tmp_pr.base))
    /\ ip' = [ip EXCEPT !.pc = "delete_tmp_ref"]
    /\ UNCHANGED <<make_vars, cl, stdout>>

\* tmp_ref.delete() without the try: a GithubException leaves the function
delete_tmp_ref_uncaught ==
    /\ IpAt("delete_tmp_ref")
    /\ \/ /\ ip.tmp_target \in DOMAIN github.branches
          /\ github' = [github EXCEPT
                            !.branches = [b \in DOMAIN @ \ {ip.tmp_target} |-> @[b]],
                            !.log = Append(@, [op |-> "delete_ref", branch |-> ip.tmp_target,
                                               file |-> [kind |-> "none", name |-> <<>>],
                                               base |-> <<>>])]
          /\ ip' = [ip EXCEPT !.pc = "create_pull"]
       \/ /\ github' = [github EXCEPT
                            !.log = Append(@, [op |-> "delete_ref raised",
                                               branch |-> ip.tmp_target,
                                               file |-> [kind |-> "none", name |-> <<>>],
                                               base |-> <<>>])]
          /\ ip' = [ip EXCEPT !.pc = "raised", !.outcome = "raise",
                              !.value = [type |-> "GithubException", msg |-> <<>>]]
    /\ UNCHANGED <<make_vars, cl, stdout>>

\* lines 175-178: tmp_ref.delete(); a GithubException is passed over
delete_tmp_ref ==
    /\ IpAt("delete_tmp_ref")
    /\ \/ /\ ip.tmp_target \in DOMAIN github.branches
          /\ github' = Logged(DeleteBranch(github, ip.tmp_target),
                              Op("delete_ref", ip.tmp_target, NoFile, <<>>))
       \/ github' = Logged(github, Op("delete_ref raised", ip.tmp_target, NoFile, <<>>))
    /\ ip' = [ip EXCEPT !.pc = "create_pull"]
    /\ UNCHANGED <<make_vars, cl, stdout>>

\* lines 182-184, and the return of None at the end of the function
create_pull ==
    /\ IpAt("create_pull")
    /\ github' = Logged(
           [github EXCEPT !.pulls =
               Append(@, Pull(<<"Add release", ip.target>>, pr_msg,
                              ip.target, ip.git_ref))],
           Op("create_pull", ip.target, NoFile, ip.git_ref))
    /\ IpReturn(None)
    /\ UNCHANGED <<make_vars, cl, stdout>>

\* lines 75-77: main raises the status insert_proposals returned
main ==
    /\ ip.pc \in {"returned", "raised"}
    /\ ip' = [ip EXCEPT !.pc = IF ip.outcome = "raise" \/ ip.value # None
                              THEN "main raised" ELSE "main returned"]
    /\ UNCHANGED github
    /\ UNCHANGED <<make_vars, cl, stdout>>

NextInsert ==
    \/ check_branches
    \/ load_proposals
    \/ create_tmp_ref
    \/ create_file
    \/ update_file
    \/ create_ref
    \/ create_tmp_pull
    \/ merge
    \/ delete_tmp_ref
    \/ create_pull
    \/ main

SpecInsert == InitInsert /\ [][NextInsert]_vars

\* ip and github have the shapes the steps rely on
InsertTypeOK ==
    /\ ip.pc \in {"check_branches", "load", "create_tmp_ref", "create_file",
                  "update_file", "create_ref", "create_tmp_pull", "merge",
                  "delete_tmp_ref", "create_pull", "returned", "raised",
                  "main raised", "main returned"}
    /\ ip.outcome \in {"running", "return", "raise"}
    /\ git_ref \in DOMAIN github.branches

-----------------------------------------------------------------------------
(* What insert_proposals was called on, read off git_ref (its files are
   never written) *)

UpgradeKey == <<ip.target[1], ip.target[2]>>
TmpTarget == Append(ip.target, "tmp")

ProposalsAtRef == load(github.branches[ip.git_ref].proposals)
BaseAtRef == load(github.branches[ip.git_ref].releases[ip.base])
RepositoryAtRef == load(github.branches[ip.git_ref].repository)

\* the branch was there at the call: nothing created it
ExistedAlready(name) ==
    /\ name \in DOMAIN github.branches
    /\ \A k \in DOMAIN github.log :
           ~(github.log[k].op = "create_git_ref" /\ github.log[k].branch = name)

\* insert_proposals has ended, by a return or by an exception
Ended == ip.outcome # "running"
Succeeded == ip.outcome = "return" /\ ip.value = None

\* it went past the checks of the target and of the branches
PastBranchChecks == ip.tmp_target # <<>>

NothingChanged == github.log = <<>> /\ github.pulls = <<>>

-----------------------------------------------------------------------------
(* C17 *)

\* C17: when insert_proposals has returned None, releases/matrices/<target>.yml
\* has been created once, and its content (on the branch <target>) is the
\* base release with the section <year>-<month> applied: the packages are
\* those of the base and of the section, a package of the section has the
\* proposed version, another package its base version; for a null section
\* the content is the base release.
C17_ReleaseIsBaseWithProposalApplied ==
    Succeeded =>
        LET section == ProposalsAtRef[UpgradeKey]
            created == {k \in DOMAIN github.log :
                            /\ github.log[k].op = "create_file"
                            /\ github.log[k].file = ReleaseFile(ip.target)}
            release == load(github.branches[ip.target].releases[ip.target])
        IN  /\ Cardinality(created) = 1
            /\ ip.target \in DOMAIN github.branches[ip.target].releases
            /\ DOMAIN release = DOMAIN BaseAtRef \cup DOMAIN section.map
            /\ \A p \in DOMAIN section.map : release[p] = section.map[p]
            /\ \A p \in DOMAIN BaseAtRef \ DOMAIN section.map : release[p] = BaseAtRef[p]
            /\ section.null => release = BaseAtRef

\* success for a section that upgrades a package of the base and adds a
\* package the base does not have, next to a base package it does not name
C17_Witness ==
    /\ Succeeded
    /\ LET section == ProposalsAtRef[UpgradeKey]
       IN  /\ DOMAIN section.map \ DOMAIN BaseAtRef # {}
           /\ DOMAIN BaseAtRef \ DOMAIN section.map # {}
           /\ \E p \in DOMAIN section.map \cap DOMAIN BaseAtRef :
                  section.map[p] # BaseAtRef[p]

-----------------------------------------------------------------------------
(* C18 *)

\* C18: when the branch <target> or <target>.tmp existed already,
\* insert_proposals ends by raising the ValueError 'Branch <name> exists
\* already', and nothing was changed: no branch, no file, no pull request.
C18_ExistingBranchRaisesValueError ==
    (ip.pc # "check_branches" /\ Len(ip.target) >= 2
     /\ (ExistedAlready(ip.target) \/ ExistedAlready(TmpTarget))) =>
        /\ ip.outcome = "raise"
        /\ ip.value = BranchExists(IF ExistedAlready(ip.target)
                                   THEN ip.target ELSE TmpTarget)
        /\ NothingChanged

\* what the code does: it returns the ValueError (main raises it), and
\* nothing was changed
ExistingBranchReturnsValueError ==
    (ip.pc # "check_branches" /\ Len(ip.target) >= 2
     /\ (ExistedAlready(ip.target) \/ ExistedAlready(TmpTarget))) =>
        /\ ip.outcome = "return"
        /\ ip.value = BranchExists(IF ExistedAlready(ip.target)
                                   THEN ip.target ELSE TmpTarget)
        /\ NothingChanged
        /\ ip.pc \in {"returned", "main raised"}

-----------------------------------------------------------------------------
(* C19 *)

SectionMissing == UpgradeKey \notin DOMAIN ProposalsAtRef

\* C19: when upgrade_proposals.yml has no section <year>-<month>,
\* insert_proposals ends by raising the AssertionError 'No section for this
\* release (<year>-<month>) in upgrade_proposals.yml', and nothing was
\* changed.
C19_MissingSectionRaisesAssertionError ==
    (PastBranchChecks /\ ip.pc # "load" /\ SectionMissing) =>
        /\ ip.outcome = "raise"
        /\ ip.value = Exception("AssertionError", NoSection(UpgradeKey).msg)
        /\ NothingChanged

\* what the code does: it returns a ValueError with that message
MissingSectionReturnsValueError ==
    (PastBranchChecks /\ ip.pc # "load" /\ SectionMissing) =>
        /\ ip.outcome = "return"
        /\ ip.value = NoSection(UpgradeKey)
        /\ NothingChanged

-----------------------------------------------------------------------------
(* C20 *)

\* the section names a package repository.yml does not have, or a version
\* repository.yml does not list for the package
NotInRepository(p) ==
    LET section == ProposalsAtRef[UpgradeKey]
    IN  \/ p \notin DOMAIN RepositoryAtRef
        \/ section.map[p] \notin RepositoryAtRef[p]

\* C20: when the section of the target release names a package or a version
\* that repository.yml does not have, insert_proposals ends by raising an
\* AssertionError that names the package, and nothing was changed.
C20_UnknownPackageOrVersionRaises ==
    (PastBranchChecks /\ Ended /\ ~SectionMissing
     /\ \E p \in DOMAIN ProposalsAtRef[UpgradeKey].map : NotInRepository(p)) =>
        /\ ip.outcome = "raise"
        /\ ip.value.type = "AssertionError"
        /\ \E p \in DOMAIN ProposalsAtRef[UpgradeKey].map :
               NotInRepository(p) /\ \E k \in DOMAIN ip.value.msg : ip.value.msg[k] = p
        /\ NothingChanged

\* what the code does: repository.yml is not read; the release is created
\* with the package at that version and both pull requests are opened
UnknownPackageOrVersionIsReleased ==
    (PastBranchChecks /\ Ended /\ ~SectionMissing
     /\ \E p \in DOMAIN ProposalsAtRef[UpgradeKey].map : NotInRepository(p)) =>
        /\ Succeeded
        /\ Len(github.pulls) = 2
        /\ \A p \in DOMAIN ProposalsAtRef[UpgradeKey].map :
               load(github.branches[ip.target].releases[ip.target])[p]
                   = ProposalsAtRef[UpgradeKey].map[p]

-----------------------------------------------------------------------------
(* C21 *)

\* a package version of upgrade_proposals.yml that is not a string
FloatInProposals ==
    \E key \in DOMAIN ProposalsAtRef : \E p \in DOMAIN ProposalsAtRef[key].map :
        ProposalsAtRef[key].map[p].type # "str"

\* a version key of repository.yml that is not a string
FloatInRepository ==
    \E p \in DOMAIN RepositoryAtRef : \E v \in RepositoryAtRef[p] : v.type # "str"

\* yaml_file_type.py lines 125-151 and 179-205: the converters that validate
\* the text of upgrade_proposals.yml and of repository.yml; they return the
\* mapping, or raise the AssertionError of the first version that is not a
\* string.  insert_proposals does not call them.
VersionTypeError(package_name) ==
    Exception("AssertionError",
              <<"Package version of", package_name, "has to be of type string">>)

UpgradeProposalsYamlString_convert(value) ==
    LET yaml == load(value)
        bad == {package_name \in UNION {DOMAIN yaml[k].map : k \in DOMAIN yaml} :
                    \E k \in DOMAIN yaml :
                        /\ package_name \in DOMAIN yaml[k].map
                        /\ yaml[k].map[package_name].type # "str"}
    IN  IF bad # {} THEN VersionTypeError(CHOOSE package_name \in bad : TRUE) ELSE None

RepositoryFileYamlString_convert(value) ==
    LET yaml == load(value)
        bad == {package_name \in DOMAIN yaml :
                    \E package_version \in yaml[package_name] :
                        package_version.type # "str"}
    IN  IF bad # {} THEN VersionTypeError(CHOOSE package_name \in bad : TRUE) ELSE None

\* the converters reject exactly the files C21 is about
ConvertersRejectNonStringVersions ==
    /\ FloatInProposals <=>
           UpgradeProposalsYamlString_convert(
               github.branches[ip.git_ref].proposals).type = "AssertionError"
    /\ FloatInRepository <=>
           RepositoryFileYamlString_convert(
               github.branches[ip.git_ref].repository).type = "AssertionError"

\* C21: when a package version of upgrade_proposals.yml or a version key of
\* repository.yml is not a string, insert_proposals ends by raising an
\* AssertionError (the package version has to be of type string), and
\* nothing was changed.
C21_NonStringVersionRaises ==
    (PastBranchChecks /\ Ended /\ ~SectionMissing
     /\ (FloatInProposals \/ FloatInRepository)) =>
        /\ ip.outcome = "raise"
        /\ ip.value.type = "AssertionError"
        /\ NothingChanged

\* what the code does: the files are loaded with ruamel and not validated;
\* the run succeeds and a float of the section is written to the release
NonStringVersionIsReleased ==
    (PastBranchChecks /\ Ended /\ ~SectionMissing
     /\ (FloatInProposals \/ FloatInRepository)) =>
        /\ Succeeded
        /\ Len(github.pulls) = 2
        /\ \A p \in DOMAIN ProposalsAtRef[UpgradeKey].map :
               load(github.branches[ip.target].releases[ip.target])[p]
                   = ProposalsAtRef[UpgradeKey].map[p]

-----------------------------------------------------------------------------
(* C22, C23, C28: the successful run of insert_proposals *)

DeleteOps == {"delete_ref", "delete_ref raised"}

\* the calls that changed the repository, without the deletion of the
\* temporary branch
Mutations == SelectSeq(github.log, LAMBDA e : e.op \notin DeleteOps)

FileWrites == SelectSeq(github.log, LAMBDA e : e.op \in {"create_file", "update_file"})

\* a branch is created at the head commit of git_ref, whose files never change
BranchesAtHeadOfGitRef ==
    [][/\ github'.branches[ip.git_ref] = github.branches[ip.git_ref]
       /\ \A b \in DOMAIN github'.branches \ DOMAIN github.branches :
              github'.branches[b] = github.branches[ip.git_ref]]_vars

MutationsInOrder ==
    Succeeded =>
        /\ Mutations =
               << Op("create_git_ref", TmpTarget, NoFile, <<>>),
                  Op("create_file", TmpTarget, ReleaseFile(ip.target), <<>>),
                  Op("update_file", TmpTarget, ProposalsFile, <<>>),
                  Op("create_git_ref", ip.target, NoFile, <<>>),
                  Op("create_pull", TmpTarget, NoFile, ip.target),
                  Op("merge", TmpTarget, NoFile, ip.target),
                  Op("create_pull", ip.target, NoFile, ip.git_ref) >>
        /\ Len(github.pulls) = 2
        /\ github.pulls[1].head = TmpTarget /\ github.pulls[1].base = ip.target
        /\ github.pulls[1].state = "merged"
        /\ github.pulls[2].head = ip.target /\ github.pulls[2].base = ip.git_ref
        /\ github.pulls[2].state = "open"
        /\ Len(FileWrites) = 2
        /\ \A k \in DOMAIN FileWrites : FileWrites[k].branch = TmpTarget

\* C22: a successful run makes its changes in this order: branch <target>.tmp
\* at the head of git_ref, the release file on it, upgrade_proposals.yml on
\* it, branch <target> at the same commit, the temporary pull request
\* (head <target>.tmp, base <target>) opened and merged, the real pull request
\* (head <target>, base git_ref) opened; two pull requests, two file writes,
\* none of them on git_ref or on <target>.
C22_MutationsInOrder == []MutationsInOrder /\ BranchesAtHeadOfGitRef

\* a successful run whose section was not empty
C22_Witness ==
    /\ Succeeded
    /\ Len(github.log) = 8
    /\ Truthy(ProposalsAtRef[UpgradeKey])

\* C23: after a successful run the upgrade_proposals.yml that was written (it
\* is on <target> after the merge) has the keys it had, the section of the
\* target release is null and every other section is what it was.
C23_ProposalsCleaned ==
    Succeeded =>
        LET written == load(github.branches[ip.target].proposals)
        IN  /\ Len(SelectSeq(github.log, LAMBDA e : e.file = ProposalsFile)) = 1
            /\ DOMAIN written = DOMAIN ProposalsAtRef
            /\ written[UpgradeKey] = NoneSection
            /\ \A k \in DOMAIN written \ {UpgradeKey} : written[k] = ProposalsAtRef[k]

\* the file had a section for another release and the section of the target
\* release was not null
C23_Witness ==
    /\ Succeeded
    /\ OtherKey \in DOMAIN ProposalsAtRef
    /\ ProposalsAtRef[OtherKey] = OtherSection
    /\ Truthy(ProposalsAtRef[UpgradeKey])
    /\ load(github.branches[ip.target].proposals)[OtherKey] = OtherSection

Deletions == {k \in DOMAIN github.log : github.log[k].op \in DeleteOps}

\* C28: in a successful run the deletion of <target>.tmp is attempted once,
\* after the merge of the temporary pull request and before the real pull
\* request is opened; when the deletion raises GithubException the run goes
\* on and does not end with an exception.
C28_TmpRefDeletedOnce ==
    /\ Succeeded =>
           /\ Cardinality(Deletions) = 1
           /\ \A k \in Deletions :
                  /\ github.log[k].branch = TmpTarget
                  /\ k > 1 /\ github.log[k - 1].op = "merge"
                  /\ k < Len(github.log)
                  /\ github.log[k + 1] = Op("create_pull", ip.target, NoFile, ip.git_ref)
    /\ (\E k \in Deletions : github.log[k].op = "delete_ref raised") =>
           /\ ip.outcome # "raise"
           /\ ip.pc \in {"create_pull", "returned", "main returned"}

\* the deletion raised (the branch was deleted by GitHub at the merge) and
\* the real pull request was opened
C28_Witness ==
    /\ Succeeded
    /\ github.auto_delete
    /\ \E k \in Deletions : github.log[k].op = "delete_ref raised"
    /\ github.pulls[Len(github.pulls)].head = ip.target

-----------------------------------------------------------------------------
(* C24 *)

PypiNameWithoutPip(current) ==
    "pypi_package_name" \in current.keys /\ current.make # "pip"

ValidationErrors ==
    {"ValueError: only valid with 'make: download'",
     "ValueError: all required with 'make: download'",
     "ValueError: pypi_package_name is only valid when building with pip"}

\* C24: no strategy is called for an entry that has pypi_package_name and a
\* method other than pip: make ends with a validation error on it (that of
\* pypi_package_name, or that of the download fields, which are checked
\* first).  A strategy called for an entry with the field (pip, then) is given
\* the alternate name as package_name, and a strategy called for an entry
\* without it the name the entry has in the plan.
C24_PypiPackageName ==
    /\ \A t \in Calls : ~PypiNameWithoutPip(Entry(trace[t].i))
    /\ (Validated /\ PypiNameWithoutPip(Entry(idx))) =>
           /\ pc = "failed"
           /\ err \in ValidationErrors
           /\ (~DownloadFieldsWithoutMethod(Entry(idx))
               /\ ~DownloadMethodWithoutFields(Entry(idx))) =>
                   err = "ValueError: pypi_package_name is only valid when building with pip"
           /\ \A t \in Calls : trace[t].i < idx
    /\ call.fn # "none" =>
           /\ call.i \in DOMAIN pkgorder
           /\ call.package_name =
                  (IF "pypi_package_name" \in Entry(call.i).keys
                   THEN "pypi-name" ELSE pkgorder[call.i])
           /\ "pypi_package_name" \in Entry(call.i).keys => call.fn = "pip"

\* pip has installed the second entry under the alternate name, after a
\* strategy was called for the first entry with its own name
C24_Witness ==
    /\ call.fn = "pip" /\ call.state = "returned" /\ call.i = 2
    /\ "pypi_package_name" \in Entry(2).keys
    /\ call.package_name = "pypi-name"
    /\ pkgorder[2] # "pypi-name"
    /\ \E f \in files : f.pkg = "pypi-name"
    /\ \E f \in files : f.pkg = pkgorder[1]


-----------------------------------------------------------------------------
(* C25: the build flags given to a strategy *)

\* the flags the entry at i is to be built with, from the inputs of the run:
\* the metadata, the EXTRA_MAKEOPTS make was started with, the prefix argument
ExpectedFlags(i) ==
    LET own == IF "makeopts" \in Entry(i).keys THEN Entry(i).makeopts ELSE <<>>
        extra == run.environ["EXTRA_MAKEOPTS"]
        combined == IF extra.set /\ extra.val # <<>>
                    THEN own \o <<Lit(" ")>> \o extra.val
                    ELSE own
        final == abspath(run.prefix)
    IN  [k \in 1..Len(combined) |->
            IF combined[k].kind = "text" /\ combined[k].text = "$(prefix)"
            THEN Dir(final) ELSE combined[k]]

\* C25: whenever a strategy that takes build flags (cmake, pip, sh, rsync) is
\* called for a plan entry, the flags it is given are the entry's own makeopts
\* (the empty string when it has none), followed by a space and the value
\* EXTRA_MAKEOPTS had when make started if it was set and not empty, with every
\* placeholder $(prefix) replaced by the absolute prefix; the same global value
\* is used for every entry of the run.
C25_BuildFlags ==
    (call.fn \in TakesMakeopts) =>
        /\ call.makeopts.passed
        /\ call.makeopts.val = ExpectedFlags(call.i)
        /\ \A k \in DOMAIN call.makeopts.val : call.makeopts.val[k] # Lit("$(prefix)")
        /\ ctx.extra_makeopts = run.environ["EXTRA_MAKEOPTS"]

\* the second entry is built, after the first, with its own flag, a space, the
\* global flags and the placeholder in them replaced by the absolute form of a
\* relative prefix
C25_Witness ==
    /\ call.fn \in TakesMakeopts /\ call.i = 2 /\ call.state = "returned"
    /\ \E t \in Returns : trace[t].i = 1 /\ Entry(1).make \in TakesMakeopts
                          /\ "makeopts" \in Entry(1).keys
    /\ ~run.prefix.abs
    /\ call.makeopts.val =
           <<Lit("-v"), Lit(" "), Lit("-D"), Dir(Path(TRUE, <<"work", "komodo">>))>>


-----------------------------------------------------------------------------
(* C26: the mode of a downloaded file *)

\* the directory that directly contains the file is named bin
DirectlyInBin(path) ==
    Len(path.parts) >= 2 /\ path.parts[Len(path.parts) - 1] = "bin"

\* download returns: status 200 and the digest is the declared one
DownloadReturns == DownloadEnds /\ call'.state = "returned"

\* C26: when download returns, the file at the destination path is executable
\* if the directory directly containing it is named bin, and otherwise has the
\* mode the path had before the call.
C26_ExecutableWhenDirectlyInBin ==
    [][DownloadReturns =>
          \E f \in files' :
              /\ f.path = DestPath
              /\ f.mode = (IF DirectlyInBin(DestPath) THEN "executable"
                           ELSE ModeAt(files, DestPath))]_vars

\* what line 203 tests: some component of the path, the file's own name
\* included, is bin
ExecutableWhenSomeComponentIsBin ==
    [][DownloadReturns =>
          \E f \in files' :
              /\ f.path = DestPath
              /\ f.mode = (IF InBin(DestPath) THEN "executable"
                           ELSE ModeAt(files, DestPath))]_vars


-----------------------------------------------------------------------------
(* C27: what a failed download leaves *)

\* the call of download that is running raises in this step
DownloadRaises == DownloadEnds /\ call'.state = "raised"

\* C27: when download raises the integrity error, the file at the destination
\* path, under the staging root, holds the bytes received, which are not those
\* of the declared digest (written before the comparison, not removed after
\* it); when download raises for the url, the hash type or a status other
\* than 200, no file is created or changed.
C27_NoRollback ==
    [][DownloadRaises =>
          IF err' = "ValueError: hash not equal"
          THEN /\ IsUnder(DestPath, call.target)
               /\ \E f \in files' :
                      /\ f.path = DestPath
                      /\ f.content = call'.response.body
                      /\ f.content # Entry(call.i).hash.value
               /\ \A f \in files' : f.path # DestPath => f \in files
          ELSE /\ err' \in {"ValueError: does not use https", "InvalidSchema",
                            "NotImplementedError: only sha256 implemented",
                            "RuntimeError: status code"}
               /\ files' = files]_vars

\* download of the second entry has failed on the digest: the file of the
\* first entry is as it was and the destination of the second holds the
\* bytes received, which are fewer than declared
C27_Witness ==
    /\ call.fn = "download" /\ call.state = "raised" /\ call.i = 2
    /\ err = "ValueError: hash not equal"
    /\ Entry(1).make = "download" /\ Entry(1).destination # Entry(2).destination
    /\ \E f \in files : f.path = DestPath /\ f.content = <<"x">>
    /\ \E f \in files : f.path # DestPath /\ f.content = Entry(1).hash.value


-----------------------------------------------------------------------------
(* cleanup.py: the (package, version) pairs of a repository file that no
   release file requests *)

MaxReleases == 2

\* A repository file is a mapping package -> (version -> metadata), in the
\* order of the file: the sequence of its items, each with the sequence of its
\* version keys.  A release file is a mapping package -> version.
Item(package, versions) == [package |-> package, versions |-> versions]

Packages == {"a", "b"}

VersionLists ==
    {<<>>, <<Str("1")>>, <<Str("1"), Str("2")>>, <<Str("2"), Str("1")>>,
     <<Float("1.0")>>}

RepositoryFiles ==
    {[yaml |-> <<>>]}
    \cup {[yaml |-> <<Item(p, vs)>>] : p \in Packages, vs \in VersionLists}
    \cup {[yaml |-> <<Item(pq[1], vs), Item(pq[2], ws)>>] :
            pq \in {<<"a", "b">>, <<"b", "a">>},
            vs \in VersionLists, ws \in VersionLists}

ReleaseFiles ==
    {[yaml |-> f] :
        f \in {g \in UNION {[S -> {Str("1"), Str("2")}] : S \in SUBSET Packages} :
                  "b" \in DOMAIN g => g["b"] = Str("1")}}
    \cup {[yaml |-> [p \in {"a"} |-> Float("1.0")]]}

ReleaseFileLists == UNION {[1..n -> ReleaseFiles] : n \in 0..MaxReleases}

\* yaml_file_type.py lines 159-176: the mapping, or the AssertionError of a
\* version that is not a string
ReleaseFileYamlString_convert(value) ==
    LET yaml == value.yaml
        bad == {package_name \in DOMAIN yaml : yaml[package_name].type # "str"}
    IN  IF bad # {}
        THEN [raised |-> TRUE, exception |-> VersionTypeError(CHOOSE p \in bad : TRUE),
              yaml |-> <<>>]
        ELSE [raised |-> FALSE, exception |-> None, yaml |-> yaml]

\* yaml_file_type.py lines 184-205, on the items of the file in their order
RepositoryFileYamlString_convert_items(value) ==
    LET yaml == value.yaml
        bad == {k \in DOMAIN yaml :
                   \E j \in DOMAIN yaml[k].versions : yaml[k].versions[j].type # "str"}
    IN  IF bad # {}
        THEN [raised |-> TRUE,
              exception |-> VersionTypeError(yaml[CHOOSE k \in bad : TRUE].package),
              yaml |-> <<>>]
        ELSE [raised |-> FALSE, exception |-> None, yaml |-> yaml]

\* the pairs of the first version of every package only
RECURSIVE first_version_combinations(_)
first_version_combinations(repository) ==
    IF repository = <<>> THEN <<>>
    ELSE (IF Head(repository).versions = <<>> THEN <<>>
          ELSE <<<<Head(repository).package, Head(repository).versions[1]>>>>)
         \o first_version_combinations(Tail(repository))

\* lines 20-23
RECURSIVE registered_package_version_combinations(_)
registered_package_version_combinations(repository) ==
    IF repository = <<>> THEN <<>>
    ELSE [j \in DOMAIN Head(repository).versions |->
             <<Head(repository).package, Head(repository).versions[j]>>]
         \o registered_package_version_combinations(Tail(repository))

\* lines 27-28: the pairs of one release
combinations_of(release) == {<<package, release[package]>> : package \in DOMAIN release}

\* what print writes
Header == <<"unused:">>
AllSeen == <<"ok">>
Unused(ver) == <<"  - ", ver[1], ": ", ver[2].text>>

CleanupFrame(repository_file, release_files) ==
    [pc |-> "repository", repository_file |-> repository_file,
     release_files |-> release_files, repository |-> <<>>, releases |-> <<>>,
     k |-> 0, registered |-> <<>>, seen |-> {}, seen_all |-> TRUE,
     exception |-> None]

InitCleanup ==
    /\ \E repository_file \in RepositoryFiles, release_files \in ReleaseFileLists :
           cl = CleanupFrame(repository_file, release_files)
    /\ stdout = <<>>
    /\ github = NoGithub
    /\ ip = NoFrame
    /\ pkgs = <<>>
    /\ repo = <<>>
    /\ environ = Environ(Unset)
    /\ pc = "none"
    /\ pkgorder = <<>>
    /\ idx = 0
    /\ ctx = [prefix |-> Prefix, fakeprefix |-> NoPath,
              ld_lib_path |-> <<>>, bin_path |-> <<>>,
              extra_makeopts |-> Unset]
    /\ call = NoCall
    /\ dirs = {}
    /\ files = {}
    /\ requests = {}
    /\ trace = <<>>
    /\ err = "none"
    /\ run = [n |-> 1, environ |-> Environ(Unset), installed |-> {}, prefix |-> Prefix]

other_vars == <<make_vars, github, ip>>

\* lines 9-11
read_repository ==
    /\ cl.pc = "repository"
    /\ LET converted == RepositoryFileYamlString_convert_items(cl.repository_file)
       IN  cl' = IF converted.raised
                 THEN [cl EXCEPT !.pc = "raised", !.exception = converted.exception]
                 ELSE [cl EXCEPT !.pc = "releases", !.repository = converted.yaml,
                                 !.k = 1]
    /\ UNCHANGED <<stdout, other_vars>>

\* lines 14-18: one release file
read_release ==
    /\ cl.pc = "releases"
    /\ cl.k <= Len(cl.release_files)
    /\ LET converted == ReleaseFileYamlString_convert(cl.release_files[cl.k])
       IN  cl' = IF converted.raised
                 THEN [cl EXCEPT !.pc = "raised", !.exception = converted.exception]
                 ELSE [cl EXCEPT !.releases = Append(@, converted.yaml), !.k = @ + 1]
    /\ UNCHANGED <<stdout, other_vars>>

\* lines 20-25, after the last release file
register ==
    /\ cl.pc = "releases"
    /\ cl.k > Len(cl.release_files)
    /\ cl' = [cl EXCEPT !.registered = registered_package_version_combinations(cl.repository),
                        !.seen = {},
                        !.pc = "seen", !.k = 1]
    /\ UNCHANGED <<stdout, other_vars>>

\* lines 26-28: one release
see ==
    /\ cl.pc = "seen"
    /\ cl.k <= Len(cl.releases)
    /\ cl' = [cl EXCEPT !.seen = @ \cup combinations_of(cl.releases[cl.k]), !.k = @ + 1]
    /\ UNCHANGED <<stdout, other_vars>>

\* line 30, after the last release
start_report ==
    /\ cl.pc = "seen"
    /\ cl.k > Len(cl.releases)
    /\ cl' = [cl EXCEPT !.seen_all = TRUE, !.pc = "report", !.k = 1]
    /\ UNCHANGED <<stdout, other_vars>>

\* lines 31-36: one registered pair
report ==
    /\ cl.pc = "report"
    /\ cl.k <= Len(cl.registered)
    /\ LET ver == cl.registered[cl.k]
       IN  IF ver \notin cl.seen
           THEN /\ stdout' = stdout \o (IF cl.seen_all THEN <<Header>> ELSE <<>>)
                                    \o <<Unused(ver)>>
                /\ cl' = [cl EXCEPT !.seen_all = FALSE, !.k = @ + 1]
           ELSE /\ stdout' = stdout
                /\ cl' = [cl EXCEPT !.k = @ + 1]
    /\ UNCHANGED other_vars

\* lines 37-38
report_ok ==
    /\ cl.pc = "report"
    /\ cl.k > Len(cl.registered)
    /\ stdout' = IF cl.seen_all THEN Append(stdout, AllSeen) ELSE stdout
    /\ cl' = [cl EXCEPT !.pc = "returned"]
    /\ UNCHANGED other_vars

NextCleanup ==
    \/ read_repository
    \/ read_release
    \/ register
    \/ see
    \/ start_report
    \/ report
    \/ report_ok

SpecCleanup == InitCleanup /\ [][NextCleanup]_vars


-----------------------------------------------------------------------------
(* C29 *)

\* the pairs some release file requests, read off the arguments
RequestedPairs ==
    UNION {combinations_of(cl.release_files[k].yaml) : k \in DOMAIN cl.release_files}

\* the pairs of the repository file, read off the argument in its order
RECURSIVE PairsOf(_)
PairsOf(items) ==
    IF items = <<>> THEN <<>>
    ELSE [j \in DOMAIN Head(items).versions |-> <<Head(items).package, Head(items).versions[j]>>]
         \o PairsOf(Tail(items))

RegisteredPairs == PairsOf(cl.repository_file.yaml)

NotRequested(ver) == ver \notin RequestedPairs

\* the number of lines printed that are line
Count(line) == Cardinality({k \in DOMAIN stdout : stdout[k] = line})

\* C29: when cleanup returns (every file passed validation), it has printed
\* the single line "ok" if every (package, version) pair of the repository
\* file is requested by some release file; otherwise it has printed the header
\* "unused:" once, first, then one line for each pair no release requests, in
\* the order of the repository file, and no "ok".  While it runs "ok" and the
\* header are never both printed, and when validation fails nothing is.
C29_CleanupReport ==
    /\ Count(AllSeen) + Count(Header) <= 1
    /\ cl.pc = "raised" => stdout = <<>>
    /\ cl.pc = "returned" =>
           LET unused == SelectSeq(RegisteredPairs, NotRequested)
           IN  IF unused = <<>>
               THEN stdout = <<AllSeen>>
               ELSE stdout = <<Header>> \o [k \in DOMAIN unused |-> Unused(unused[k])]

\* two releases leave the second version of the first package and the only
\* version of the second package unrequested; the first version of the first
\* package is requested
C29_Witness ==
    /\ cl.pc = "returned"
    /\ Len(cl.release_files) = 2
    /\ stdout = <<Header, Unused(<<"a", Str("1")>>), Unused(<<"b", Str("1")>>)>>
    /\ RegisteredPairs[1] = <<"a", Str("2")>>
    /\ RegisteredPairs[1] \in RequestedPairs
    /\ cl.release_files[1] # cl.release_files[2]

\* every pair is requested, by two releases between them
AllRequestedByTwoReleases ==
    /\ cl.pc = "returned"
    /\ stdout = <<AllSeen>>
    /\ Len(RegisteredPairs) = 3
    /\ \A k \in DOMAIN cl.release_files :
           \E j \in DOMAIN RegisteredPairs :
               RegisteredPairs[j] \notin combinations_of(cl.release_files[k].yaml)
====
